---- MODULE Spec2Model ----
(***************************************************************************)
(* Model of the instrumented streaming pipeline of media-tests:            *)
(*   - StepTimesDB (src/StepTimesDB.js): the store of per-chunk step times *)
(*     and the statistics computed from it;                                *)
(*   - InstrumentedTransformStream (src/unnamed/part_009): the stage that  *)
(*     records start/end times per chunk in a static cache;                *)
(*   - the transform worker (src/worker-transform.js and its earlier       *)
(*     revision src/unnamed/part_003): the encode stage and 'stop';        *)
(*   - the main thread's report (src/unnamed/part_000).                    *)
(*                                                                         *)
(* JavaScript objects are functions from property names to values: a       *)
(* property that is not set is a name outside the DOMAIN.  Timestamps and  *)
(* identifiers are integers.                                               *)
(***************************************************************************)
EXTENDS Integers, Sequences, FiniteSets, TLC

VARIABLES
  times,          \* StepTimesDB.#times: sequence of entries
  report,         \* the last value returned by StepTimesDB.computeStats
  batch,          \* the array a caller passes to StepTimesDB.addEntries
  calls,          \* number of addEntries(batch) calls made so far
  console,        \* number of diagnostics written to the console
  running,        \* part_000: the run is on (Start pressed, Stop not yet)
  now,            \* performance.timeOrigin + performance.now()
  stats,          \* InstrumentedTransformStream.#stats of each context
  done,           \* number of frames each step of the pipeline has processed
  missedCounter,  \* part_000 startMedia: missedCounter
  inbox,          \* messages posted to the workers and not handled yet, in order
  statsMsg,       \* 'stats' messages posted by the workers and not handled yet
  reportedStats,  \* part_000: reportedStats
  encoderState,   \* worker-transform.js: encoder.state
  decoderState,   \* worker-transform.js: decoder.state
  configuring,    \* the isConfigSupported promise of the encoder is pending
  cur,            \* per stage: the transform call in progress, if any
  queue,          \* per stage: the chunks enqueued for it and not yet taken
  microtasks,     \* the microtask queue of the worker
  encoding,       \* frames passed to encoder.encode whose output is to come
  decoding,       \* chunks passed to decoder.decode whose output is to come
  configSent,     \* the encoder has output its decoder configuration
  errored,        \* a transform rejected: the pipeline is errored
  pendingOutputs, \* part_003: EncodeVideoStream's pending_outputs
  frameTimes,     \* part_005, part_006: frameTimes
  frameReport,    \* the last value returned by framestats_report
  transformer,    \* the transformer an InstrumentedTransformStream was built with
  readable,       \* the chunks that stream enqueued on its underlying controller
  transformCall,  \* the transform call of that stream in progress, if any
  timerLastId,    \* InstrumentedTransformStream.#timerLastId of each context
  stageNames,     \* timerName of the streams built in each context for the run
  runs,           \* number of clicks on Start
  reports,        \* number of reports computed and logged by reportStats
  written,        \* the frames written to a stream, in order
  timers,         \* the callbacks given to setTimeout and not called yet
  previousTimestamp, \* worker-transform.js: previous...Timestamp of a delay stage
  closed,         \* the stream of the delay stage was closed: its input ended
  collected,      \* the array a call to collectStats returned, if any
  aliased,        \* that array is the one #stats refers to
  started,        \* worker-getinputstream.js: started
  writer,         \* worker-getinputstream.js: writer (0 for null)
  chains,         \* the chains of writeVideoFrame calls of the input worker
  config,         \* part_000 startMedia: config, as the workers receive it
  rvfcHandle,     \* part_000: rvfcHandle (0 for null)
  registered,     \* the handles of the video frame callbacks to be called
  prevPresentedFrames, \* part_000 startMedia: prevPresentedFrames
  lastHandle,     \* the last handle requestVideoFrameCallback returned
  added,          \* the entries passed to the store since its last reset
  thrown          \* a call has thrown

dbVars == <<times, report>>
callerVars == <<batch, calls>>
runVars == <<running, now, stats, done, missedCounter, inbox, statsMsg, reportedStats>>

frameVars == <<frameTimes, frameReport>>
stageVars == <<transformer, readable, transformCall>>

nameVars == <<timerLastId, stageNames>>
sessionVars == <<runs, reports>>
delayVars == <<written, timers, previousTimestamp, closed>>
collectVars == <<collected, aliased>>
inputVars == <<started, writer, chains>>
laterVars == <<delayVars, collectVars, inputVars>>
displayVars == <<rvfcHandle, registered, prevPresentedFrames, lastHandle>>
restVars == <<config, displayVars, added, thrown>>
otherVars == <<nameVars, sessionVars, laterVars, restVars>>

workerVars == <<encoderState, decoderState, configuring, cur, queue, microtasks,
                encoding, decoding, configSent, errored, pendingOutputs>>

vars == <<times, report, batch, calls, console, running, now, stats, done,
          missedCounter, inbox, statsMsg, reportedStats,
          encoderState, decoderState, configuring, cur, queue, microtasks,
          encoding, decoding, configSent, errored, pendingOutputs,
          frameTimes, frameReport, transformer, readable, transformCall,
          otherVars>>

-----------------------------------------------------------------------------
(* Bounds of the model *)

\* Largest number of entries of a store drawn in Init
MaxEntries == 3

\* Largest length of the array passed to addEntries
MaxBatch == 2

\* Largest number of consecutive addEntries calls with the same array
MaxCalls == 2

\* Number of frames the input produces in a run
MaxFrames == 2

\* Largest number of frames the display callback reports as missed, and of
\* frames it reports a second time
MaxMissed == 1
MaxLog == 1

\* Time between two frames of the input
FramePeriod == 10

\* Largest value of the clock of the transform worker
MaxTime == 3

\* Number of frames the encode stage of part_003 receives
MaxOldFrames == 32

-----------------------------------------------------------------------------
(* JavaScript values *)

\* obj[key] is set
Has(obj, key) == key \in DOMAIN obj

\* obj[step]?.field is truthy: set, and not 0
Truthy(obj, step, field) ==
  /\ Has(obj, step)
  /\ Has(obj[step], field)
  /\ obj[step][field] # 0

\* Object.assign(target, source)
ObjectAssign(target, source) ==
  [k \in DOMAIN target \cup DOMAIN source |->
     IF k \in DOMAIN source THEN source[k] ELSE target[k]]

\* obj[key] = value
SetProp(obj, key, value) ==
  [k \in DOMAIN obj \cup {key} |-> IF k = key THEN value ELSE obj[k]]

\* Math.round(num / den) for den > 0: rounds half up
RoundDiv(num, den) == (2 * num + den) \div (2 * den)

Min(S) == CHOOSE x \in S : \A y \in S : x <= y
Max(S) == CHOOSE x \in S : \A y \in S : x >= y

Range(s) == {s[i] : i \in 1..Len(s)}

RECURSIVE SumSeq(_)
SumSeq(s) == IF s = <<>> THEN 0 ELSE Head(s) + SumSeq(Tail(s))

\* Number::toString of an integer, as the sequence of its code units
\* ('-' is 45, '0'..'9' are 48..57)
RECURSIVE Digits(_)
Digits(n) == IF n < 10 THEN <<48 + n>> ELSE Append(Digits(n \div 10), 48 + (n % 10))

NumberToString(n) == IF n < 0 THEN <<45>> \o Digits(0 - n) ELSE Digits(n)

\* s < t for strings, by code units
RECURSIVE StringLess(_, _)
StringLess(s, t) ==
  IF t = <<>> THEN FALSE
  ELSE IF s = <<>> THEN TRUE
  ELSE IF Head(s) # Head(t) THEN Head(s) < Head(t)
  ELSE StringLess(Tail(s), Tail(t))

\* Array.prototype.sort() with no comparator, on an array of numbers: the
\* elements are compared as strings (elements that compare equal are equal)
RECURSIVE DefaultSort(_)
DefaultSort(s) ==
  IF s = <<>> THEN <<>>
  ELSE LET m == CHOOSE i \in 1..Len(s) :
                  \A j \in 1..Len(s) :
                    ~StringLess(NumberToString(s[j]), NumberToString(s[i]))
           rest == [k \in 1..Len(s) - 1 |-> IF k < m THEN s[k] ELSE s[k + 1]]
       IN <<s[m]>> \o DefaultSort(rest)

-----------------------------------------------------------------------------
(* StepTimesDB *)

\* constructor arguments of the store of the main thread
ChunkIdProperty == "id"
InitialStep == "input"
FinalStep == "final"

\* !entry[this.#chunkIdProperty] is false
HasChunkId(entry) == Has(entry, ChunkIdProperty) /\ entry[ChunkIdProperty] # 0

\* index in ts of the first entry whose identifier is id, 0 when there is none
FindIndex(ts, id) ==
  LET found == {i \in 1..Len(ts) :
                  Has(ts[i], ChunkIdProperty) /\ ts[i][ChunkIdProperty] = id}
  IN IF found = {} THEN 0 ELSE Min(found)

\* an addEntry that never looks the identifier up
AddEntryAlwaysPush(ts, entry) ==
  IF ~HasChunkId(entry) THEN ts ELSE Append(ts, entry)

AddEntry(ts, entry) ==
  IF ~HasChunkId(entry) THEN ts
  ELSE LET i == FindIndex(ts, entry[ChunkIdProperty])
       IN IF i # 0
          THEN [ts EXCEPT ![i] = ObjectAssign(ts[i], entry)]
          ELSE Append(ts, entry)

RECURSIVE AddEntries(_, _)
AddEntries(ts, entries) ==
  IF entries = <<>> THEN ts
  ELSE AddEntries(AddEntry(ts, Head(entries)), Tail(entries))

\* addEntry pushes the entry itself, not a copy: an entry of the array passed to
\* addEntries that was pushed is the store's entry afterwards, and shows what
\* later entries of the array assigned to it.  The array once the store has
\* become final, and the array right after addEntries:
AliasedTo(ts, entries, final) ==
  LET pushed(k) ==
        /\ HasChunkId(entries[k])
        /\ FindIndex(ts, entries[k][ChunkIdProperty]) = 0
        /\ \A j \in 1..k - 1 :
             ~(Has(entries[j], ChunkIdProperty)
               /\ entries[j][ChunkIdProperty] = entries[k][ChunkIdProperty])
  IN [k \in 1..Len(entries) |->
        IF pushed(k) THEN final[FindIndex(final, entries[k][ChunkIdProperty])]
        ELSE entries[k]]

AliasedEntries(ts, entries) == AliasedTo(ts, entries, AddEntries(ts, entries))

\* getDurations
GetDurations(ts, startingStep, finalStep) ==
  LET kept == SelectSeq(ts, LAMBDA t :
                Truthy(t, finalStep, "end") /\ Truthy(t, startingStep, "start"))
  IN [i \in 1..Len(kept) |-> kept[i][finalStep]["end"] - kept[i][startingStep]["start"]]

\* the inner computeStats: count, min, max, avg, median of durations.  With no
\* duration min, max, avg and median are Infinity, -Infinity, NaN and NaN: the
\* record then has a count only.
ComputeStatsOf(durations) ==
  LET sorted == DefaultSort(durations)
      count == Len(sorted)
      half == count \div 2
  IN IF count = 0 THEN [count |-> 0]
     ELSE [count |-> count,
           min |-> Min(Range(sorted)),
           max |-> Max(Range(sorted)),
           avg |-> RoundDiv(SumSeq(sorted), count),
           median |-> IF count % 2 = 1 THEN sorted[half + 1]
                      ELSE RoundDiv(sorted[half] + sorted[half + 1], 2)]

\* the list of processing steps of the store
StepsOf(ts) == UNION {DOMAIN ts[i] \ {ChunkIdProperty} : i \in 1..Len(ts)}

\* t1[step]?.start - t2[step]?.start as the sort sees it: -1, 0 or 1, and 0
\* when the difference is NaN
HasStart(t, step) == Has(t, step) /\ Has(t[step], "start")

CompareStart(t1, t2, step) ==
  IF ~HasStart(t1, step) \/ ~HasStart(t2, step) THEN 0
  ELSE IF t1[step]["start"] < t2[step]["start"] THEN -1
  ELSE IF t1[step]["start"] > t2[step]["start"] THEN 1
  ELSE 0

\* times.sort((t1, t2) => t1[step]?.start - t2[step]?.start), as the order of
\* the indices of ts.  An entry without the step makes the comparator answer
\* NaN, which the sort reads as 0, so the comparator may be inconsistent and the
\* order is then the one the engine's algorithm happens to produce.  The demo
\* runs in Chrome (src/README.md:27), whose sort is a TimSort: for an array
\* shorter than 64 it takes the run that starts the array (reversed when it is
\* strictly descending) and inserts the other elements by binary insertion.
RECURSIVE RunEnd(_, _, _, _)
RunEnd(ts, step, idx, descending) ==
  IF idx > Len(ts) THEN Len(ts)
  ELSE LET order == CompareStart(ts[idx], ts[idx - 1], step)
       IN IF (descending /\ order >= 0) \/ (~descending /\ order < 0)
          THEN idx - 1
          ELSE RunEnd(ts, step, idx + 1, descending)

RECURSIVE Bisect(_, _, _, _, _, _)
Bisect(ts, step, arr, pivot, left, right) ==
  IF left >= right THEN left
  ELSE LET mid == left + ((right - left) \div 2)
       IN IF CompareStart(ts[pivot], ts[arr[mid]], step) < 0
          THEN Bisect(ts, step, arr, pivot, left, mid)
          ELSE Bisect(ts, step, arr, pivot, mid + 1, right)

RECURSIVE BinaryInsertionSort(_, _, _, _)
BinaryInsertionSort(ts, step, arr, start) ==
  IF start > Len(arr) THEN arr
  ELSE LET pivot == arr[start]
           left == Bisect(ts, step, arr, pivot, 1, start)
           moved == [k \in 1..Len(arr) |->
                       IF k < left \/ k > start THEN arr[k]
                       ELSE IF k = left THEN pivot
                       ELSE arr[k - 1]]
       IN BinaryInsertionSort(ts, step, moved, start + 1)

SortByStart(ts, step) ==
  LET n == Len(ts)
  IN IF n < 2 THEN [i \in 1..n |-> i]
     ELSE LET descending == CompareStart(ts[2], ts[1], step) < 0
              run == RunEnd(ts, step, 3, descending)
              first == [i \in 1..n |->
                          IF descending /\ i <= run THEN run + 1 - i ELSE i]
          IN BinaryInsertionSort(ts, step, first, run + 1)

\* the forEach of the open-interval resolution for one step, on the sorted copy
\* of the store
ResolveStep(ts, step) ==
  LET n == Len(ts)
      open(i) == Truthy(ts[i], step, "start") /\ ~Truthy(ts[i], step, "end")
  IN IF \A i \in 1..n : ~open(i) THEN ts
     ELSE LET order == SortByStart(ts, step)
              pos(i) == CHOOSE k \in 1..n : order[k] = i
              nexts(i) == {k \in pos(i) + 1..n : Truthy(ts[order[k]], step, "start")}
          IN [i \in 1..n |->
                IF open(i) /\ nexts(i) # {}
                THEN SetProp(ts[i], step,
                       SetProp(ts[i][step], "end", ts[order[Min(nexts(i))]][step]["start"]))
                ELSE ts[i]]

\* the loop over the steps: a step's resolution reads and writes the intervals
\* of that step only
ResolveAll(ts) ==
  [i \in 1..Len(ts) |->
     [k \in DOMAIN ts[i] |->
        IF k \in StepsOf(ts) THEN ResolveStep(ts, k)[i][k] ELSE ts[i][k]]]

\* computeQueuedDuration: {} is null, {n} is the number n.  Object.values(stat)
\* holds the identifier too: it has no start, so that it is dropped by the
\* filter when the final step has a start time and found by the find otherwise.
QueuedIntervals(stat) ==
  {k \in DOMAIN stat \ {ChunkIdProperty} :
     \/ ~Truthy(stat, FinalStep, "start")
     \/ Has(stat[k], "start") /\ stat[k]["start"] <= stat[FinalStep]["start"]}

\* the sort of computeQueuedDuration, by start then by end, on intervals that
\* all have a start and an end (intervals that compare equal are equal)
RECURSIVE SortIntervals(_, _)
SortIntervals(stat, keys) ==
  IF keys = {} THEN <<>>
  ELSE LET Before(k1, k2) ==
             \/ stat[k1]["start"] < stat[k2]["start"]
             \/ stat[k1]["start"] = stat[k2]["start"] /\ stat[k1]["end"] <= stat[k2]["end"]
           first == CHOOSE k \in keys : \A o \in keys : Before(k, o)
       IN <<stat[first]>> \o SortIntervals(stat, keys \ {first})

\* a computeQueuedDuration that answers 0 where it has no answer
ComputeQueuedDurationZero(stat) ==
  LET keys == QueuedIntervals(stat)
  IN IF \/ ~Truthy(stat, FinalStep, "start")
        \/ \E k \in keys : ~Truthy(stat, k, "start") \/ ~Truthy(stat, k, "end")
     THEN {0}
     ELSE LET sorted == SortIntervals(stat, keys)
          IN {SumSeq([i \in 1..Len(sorted) - 1 |->
                        sorted[i + 1]["start"] - sorted[i]["end"]])}

ComputeQueuedDuration(stat) ==
  LET keys == QueuedIntervals(stat)
  IN IF \/ ~Truthy(stat, FinalStep, "start")
        \/ \E k \in keys : ~Truthy(stat, k, "start") \/ ~Truthy(stat, k, "end")
     THEN {}
     ELSE LET sorted == SortIntervals(stat, keys)
          IN {SumSeq([i \in 1..Len(sorted) - 1 |->
                        sorted[i + 1]["start"] - sorted[i]["end"]])}

\* the durations record of one entry
DurationsOf(ts, entry) ==
  [id |-> entry[ChunkIdProperty],
   steps |-> [s \in StepsOf(ts) |->
                IF Truthy(entry, s, "start") /\ Truthy(entry, s, "end")
                THEN entry[s]["end"] - entry[s]["start"] ELSE 0],
   queued |-> ComputeQueuedDuration(entry),
   end2end |-> IF Has(entry, FinalStep) /\ Has(entry[FinalStep], "end")
                  /\ HasStart(entry, InitialStep)
               THEN {entry[FinalStep]["end"] - entry[InitialStep]["start"]}
               ELSE {}]

\* times.map(computeQueuedDuration).filter(s => !!s)
QueuedDurations(ts) ==
  LET kept == SelectSeq(ts, LAMBDA t :
                ComputeQueuedDuration(t) # {} /\ ComputeQueuedDuration(t) # {0})
  IN [i \in 1..Len(kept) |-> CHOOSE d \in ComputeQueuedDuration(kept[i]) : TRUE]

\* the value computeStats returns for the (resolved) store ts
ReportOf(ts) ==
  [all |-> ts,
   durations |-> [i \in 1..Len(ts) |-> DurationsOf(ts, ts[i])],
   stats |-> [s \in StepsOf(ts) |-> ComputeStatsOf(GetDurations(ts, s, s))],
   queued |-> ComputeStatsOf(QueuedDurations(ts)),
   end2end |-> ComputeStatsOf(GetDurations(ts, InitialStep, FinalStep))]

NoReport == [none |-> TRUE]

-----------------------------------------------------------------------------
(* InstrumentedTransformStream: the static cache of a context *)

\* #stats.find(s => s.id === chunkId): index of the entry, 0 when there is none
StatsFind(st, chunkId) ==
  LET found == {i \in 1..Len(st) : st[i].id = chunkId}
  IN IF found = {} THEN 0 ELSE Min(found)

\* the head of transform: finds or pushes the entry of the chunk and starts
\* the timer of the stage at time t
StartTimer(st, chunkId, timerName, t) ==
  LET i == StatsFind(st, chunkId)
  IN IF i # 0
     THEN [st EXCEPT ![i] = SetProp(st[i], timerName, [start |-> t])]
     ELSE Append(st, SetProp([id |-> chunkId], timerName, [start |-> t]))

\* a controller enqueue that leaves the timer alone
ControllerEnqueueNoEnd(stat, t) == stat

\* InstrumentedTransformStreamController.enqueue at time t, on the timer stat
ControllerEnqueue(stat, t) == SetProp(stat, "end", t)

\* the tail of transform at time t: the end is set unless enqueue set it
CompleteTimer(stat, t) ==
  IF Has(stat, "end") /\ stat["end"] # 0 THEN stat ELSE SetProp(stat, "end", t)

\* the timer of the stage in the entry of the chunk: stats[timerName]
Timer(st, chunkId, timerName) == st[StatsFind(st, chunkId)][timerName]

\* the cache once the timer of the stage in the entry of the chunk is stat
WithTimer(st, chunkId, timerName, stat) ==
  [st EXCEPT ![StatsFind(st, chunkId)] = SetProp(@, timerName, stat)]

\* a whole transform that calls enqueue on the controller it is given: it
\* starts at t0, enqueues at t1 and completes at t2
RecordStage(st, chunkId, timerName, t0, t1, t2) ==
  LET begun == StartTimer(st, chunkId, timerName, t0)
      enqueued == ControllerEnqueue(Timer(begun, chunkId, timerName), t1)
  IN WithTimer(begun, chunkId, timerName, CompleteTimer(enqueued, t2))

\* a whole transform that does not call enqueue on the controller it is
\* given: it starts at t0 and completes at t2
RecordStageNoEnqueue(st, chunkId, timerName, t0, t2) ==
  LET begun == StartTimer(st, chunkId, timerName, t0)
  IN WithTimer(begun, chunkId, timerName,
               CompleteTimer(Timer(begun, chunkId, timerName), t2))

-----------------------------------------------------------------------------
(* The contexts of a run (part_000) *)

Workers == {"transformWorker", "overlayWorker"}
Contexts == {"main"} \cup Workers

\* a new StepTimesDB, nothing on the console
NoStore ==
  /\ times = <<>>
  /\ report = NoReport
  /\ batch = <<>>
  /\ calls = 0
  /\ console = 0

\* the message the worker handles next is of the given type
Receives(w, type) == inbox[w] # <<>> /\ Head(inbox[w]) = type

\* no run going on: the value of the variables of a run in the specifications
\* that exercise the store alone
NoRun ==
  /\ running = FALSE
  /\ now = 1
  /\ stats = [c \in Contexts |-> <<>>]
  /\ done = [p \in {"input", "transform", "overlay", "final"} |-> 0]
  /\ missedCounter = 0
  /\ inbox = [w \in Workers |-> <<>>]
  /\ statsMsg = [w \in Workers |-> <<>>]
  /\ reportedStats = <<>>

\* the stages of the transform worker when it encodes and decodes
\* (transformModes.encode, memoryMode 'no'), in the order of the pipe
Stages == <<"toRGBX", "encode", "decode">>

\* the pipeline of the transform worker right after 'start'
NewPipeline ==
  /\ encoderState = "unconfigured"
  /\ decoderState = "unconfigured"
  /\ configuring = TRUE
  /\ cur = [s \in Range(Stages) |-> <<>>]
  /\ queue = [s \in Range(Stages) |-> <<>>]
  /\ microtasks = <<>>
  /\ encoding = <<>>
  /\ decoding = <<>>
  /\ configSent = FALSE
  /\ errored = FALSE
  /\ pendingOutputs = 0

\* no frame was observed at display and nothing was reported
NoFrames ==
  /\ frameTimes = <<>>
  /\ frameReport = NoReport

\* no stream was built yet in any context
NoNames ==
  /\ timerLastId = [c \in Contexts |-> 0]
  /\ stageNames = [c \in Contexts |-> <<>>]

\* the value of the remaining variables in the specifications that do not
\* exercise them
NoDelay ==
  /\ written = <<>>
  /\ timers = <<>>
  /\ previousTimestamp = 0
  /\ closed = FALSE

NoCollect ==
  /\ collected = <<>>
  /\ aliased = FALSE

NoInput ==
  /\ started = FALSE
  /\ writer = 0
  /\ chains = <<>>

NoRest ==
  /\ config = <<>>
  /\ rvfcHandle = 0
  /\ registered = {}
  /\ prevPresentedFrames = 0
  /\ lastHandle = 0
  /\ added = <<>>
  /\ thrown = FALSE

NothingElse ==
  /\ NoNames
  /\ runs = 1
  /\ reports = 0
  /\ NoDelay
  /\ NoCollect
  /\ NoInput
  /\ NoRest

\* no stream under observation: the value of the variables of the stage in the
\* specifications that do not exercise a stage on its own
NoStage ==
  /\ transformer = "absent"
  /\ readable = <<>>
  /\ transformCall = <<>>

-----------------------------------------------------------------------------
(* Statistics of a store: the inputs of computeStats are drawn in Init *)

\* start times of the intervals that have no end, and of those that have one
OpenStarts == {0, 100, 140, 190}
ClosedStarts == {0, 10, 30}
OpenOverlayStarts == {10, 30}
Durations == {3, 10, 15}

\* the entries a store may hold for identifier id
EntriesFor(id) ==
  {[id |-> id]}
  \cup {[id |-> id, display |-> [start |-> s]] : s \in OpenStarts}
  \cup {[id |-> id, overlay |-> [start |-> s, end |-> s + d]] :
          s \in ClosedStarts, d \in Durations}
  \cup {[id |-> id, overlay |-> [start |-> s]] : s \in OpenOverlayStarts}

StoresOfLen(n) ==
  {ts \in [1..n -> UNION {EntriesFor(id) : id \in 1..n}] :
     \A i \in 1..n : ts[i]["id"] = i}

InitStats ==
  /\ times \in UNION {StoresOfLen(n) : n \in 0..MaxEntries}
  /\ report = NoReport
  /\ batch = <<>>
  /\ calls = 0
  /\ console = 0
  /\ NoRun
  /\ NewPipeline
  /\ NoFrames
  /\ NothingElse
  /\ NoStage

\* StepTimesDB.computeStats
ComputeStats ==
  /\ report = NoReport
  /\ times' = ResolveAll(times)
  /\ report' = ReportOf(ResolveAll(times))
  /\ UNCHANGED <<otherVars, frameVars, stageVars, callerVars, console, runVars, workerVars>>

NextStats == ComputeStats

SpecStats == InitStats /\ [][NextStats]_vars

-----------------------------------------------------------------------------
(* Claims on the statistics *)

\* the entries of the store whose interval for step s has a start and an end
CompleteEntries(ts, s) ==
  {i \in 1..Len(ts) : Has(ts[i], s) /\ Has(ts[i][s], "start") /\ Has(ts[i][s], "end")}

DurationOf(ts, s, i) == ts[i][s]["end"] - ts[i][s]["start"]

\* the k-th smallest duration of step s, in ascending numeric order
NumericRank(ts, s, k) ==
  CHOOSE d \in {DurationOf(ts, s, i) : i \in CompleteEntries(ts, s)} :
    /\ Cardinality({i \in CompleteEntries(ts, s) : DurationOf(ts, s, i) < d}) < k
    /\ Cardinality({i \in CompleteEntries(ts, s) : DurationOf(ts, s, i) <= d}) >= k

ExampleC8 ==
  <<[id |-> 1, overlay |-> [start |-> 0, end |-> 10]],
    [id |-> 2, overlay |-> [start |-> 10, end |-> 25]],
    [id |-> 3, overlay |-> [start |-> 30, end |-> 33]]>>

\* C8: once computeStats has run, for every step with at least one complete
\* interval the report gives count = the number of complete intervals, min and
\* max = the smallest and largest duration, avg = the rounded mean and (for an
\* odd count) median = the middle duration in ascending numeric order; the
\* three intervals of the example give count 3, min 3, max 15, avg 9, median 10.
C8_StatsOfCompleteIntervals ==
  report # NoReport =>
    /\ \A s \in StepsOf(times) :
         LET complete == CompleteEntries(times, s)
             n == Cardinality(complete)
             durs == {DurationOf(times, s, i) : i \in complete}
             st == report.stats[s]
         IN n > 0 =>
              /\ st.count = n
              /\ Has(st, "min") /\ st.min = Min(durs)
              /\ st.max = Max(durs)
              /\ st.avg = RoundDiv(SumSeq([i \in 1..Len(times) |->
                                  IF i \in complete THEN DurationOf(times, s, i) ELSE 0]), n)
              /\ n % 2 = 1 => st.median = NumericRank(times, s, (n + 1) \div 2)
    /\ times = ExampleC8 =>
         report.stats["overlay"] = [count |-> 3, min |-> 3, max |-> 15, avg |-> 9, median |-> 10]

\* C9: once computeStats has run, the durations taken for a step are exactly
\* end - start of the entries whose interval for that step has both a start
\* and an end, whatever their values (0 included), in store order.
C9_DurationIffStartAndEnd ==
  report # NoReport =>
    \A s \in StepsOf(times) :
      LET kept == SelectSeq([i \in 1..Len(times) |-> i],
                    LAMBDA i : i \in CompleteEntries(times, s))
      IN /\ GetDurations(times, s, s) = [k \in 1..Len(kept) |-> DurationOf(times, s, kept[k])]
         /\ report.stats[s].count = Len(kept)

\* the display entries that come after entry i in start order (entries with
\* the same start: in store order)
LaterDisplays(ts, i) ==
  {j \in 1..Len(ts) :
     /\ HasStart(ts[j], "display")
     /\ \/ ts[j]["display"]["start"] > ts[i]["display"]["start"]
        \/ ts[j]["display"]["start"] = ts[i]["display"]["start"] /\ j > i}

\* C10: once computeStats has run on display intervals that carried only a
\* start, each display entry has for end the smallest start among the display
\* entries that come next in start order, and the entry with the greatest
\* start has no end and is not counted in the display statistics.
C10_DisplayEndIsNextStart ==
  report # NoReport =>
    /\ \A i \in 1..Len(times) : HasStart(times[i], "display") =>
         IF LaterDisplays(times, i) = {}
         THEN ~Has(times[i]["display"], "end")
         ELSE /\ Has(times[i]["display"], "end")
              /\ times[i]["display"]["end"] =
                   Min({times[j]["display"]["start"] : j \in LaterDisplays(times, i)})
    /\ "display" \in StepsOf(times) =>
         report.stats["display"].count =
           Cardinality({i \in 1..Len(times) :
                          HasStart(times[i], "display") /\ LaterDisplays(times, i) # {}})

\* C31: in the store, before and after computeStats, every interval that has
\* an end has a start that is not after it.
C31_StartNotAfterEnd ==
  \A i \in 1..Len(times) : \A step \in DOMAIN times[i] \ {ChunkIdProperty} :
    Has(times[i][step], "end") =>
      /\ Has(times[i][step], "start")
      /\ times[i][step]["start"] <= times[i][step]["end"]

\* the steps whose interval ends when the same step starts for the next chunk
CloseOnNext == {"display"}

\* C11: when computeStats runs, an interval that has a start and no end, for a
\* step that is not close-on-next, stays without an end, adds nothing to the
\* count of the step's statistics and is not reported as a duration of zero.
C11_OpenIntervalStaysUnresolved ==
  [][report = NoReport /\ report' # NoReport =>
       \A i \in 1..Len(times) : \A s \in StepsOf(times) \ CloseOnNext :
         (HasStart(times[i], s) /\ ~Has(times[i][s], "end")) =>
           /\ ~Has(times'[i][s], "end")
           /\ report'.stats[s].count = Cardinality(CompleteEntries(times, s))
           /\ report'.durations[i].steps[s] # 0]_vars

\* C15: once computeStats has run, for every step with an even number of
\* durations the median is the lower of the two middle durations in ascending
\* numeric order.
C15_EvenMedianIsLowerMiddle ==
  report # NoReport =>
    \A s \in StepsOf(times) :
      LET n == Cardinality(CompleteEntries(times, s))
      IN (n > 0 /\ n % 2 = 0 /\ report.stats[s].count = n) =>
           report.stats[s].median = NumericRank(times, s, n \div 2)

-----------------------------------------------------------------------------
(* Statistics across steps: the stores hold entries that went through the
   input stage, the overlay stage and the final stage, or through some of
   them *)

\* Largest number of entries of such a store
MaxQueuedEntries == 2

\* the intervals an entry may hold for each step
InputIntervals == {[start |-> 1, end |-> 2], [start |-> 0, end |-> 1]}
OverlayIntervals == {[start |-> 2, end |-> 3], [start |-> 2], [start |-> 3, end |-> 6]}
FinalIntervals == {[start |-> 5, end |-> 6], [start |-> 5]}

\* no interval, or one of the intervals
Optional(intervals) == {{}} \cup {{x} : x \in intervals}

\* entry[step] = the interval, if there is one
WithStep(entry, step, interval) ==
  IF interval = {} THEN entry ELSE SetProp(entry, step, CHOOSE x \in interval : TRUE)

QueuedEntriesFor(id) ==
  {WithStep(WithStep(WithStep([id |-> id], "input", i), "overlay", o), "final", f) :
     i \in Optional(InputIntervals), o \in Optional(OverlayIntervals),
     f \in Optional(FinalIntervals)}

QueuedStoresOfLen(n) ==
  {ts \in [1..n -> UNION {QueuedEntriesFor(id) : id \in 1..n}] :
     \A i \in 1..n : ts[i]["id"] = i}

InitQueued ==
  /\ times \in UNION {QueuedStoresOfLen(n) : n \in 0..MaxQueuedEntries}
  /\ report = NoReport
  /\ batch = <<>>
  /\ calls = 0
  /\ console = 0
  /\ NoRun
  /\ NewPipeline
  /\ NoFrames
  /\ NothingElse
  /\ NoStage

SpecQueued == InitQueued /\ [][NextStats]_vars

-----------------------------------------------------------------------------
(* Claims on the statistics across steps *)

\* the entries that have both the start of the initial step and the end of
\* the final step
BoundedEntries(ts) ==
  {i \in 1..Len(ts) :
     /\ HasStart(ts[i], InitialStep)
     /\ Has(ts[i], FinalStep) /\ Has(ts[i][FinalStep], "end")}

\* C12: once computeStats has run, the end2end statistics count exactly the
\* entries that have both initialStep.start and finalStep.end, each for
\* finalStep.end - initialStep.start, in store order.
C12_End2EndOfBoundedEntries ==
  report # NoReport =>
    LET kept == SelectSeq([i \in 1..Len(times) |-> i],
                  LAMBDA i : i \in BoundedEntries(times))
    IN /\ report.end2end.count = Len(kept)
       /\ GetDurations(times, InitialStep, FinalStep) =
            [k \in 1..Len(kept) |->
               times[kept[k]][FinalStep]["end"] - times[kept[k]][InitialStep]["start"]]

\* every interval of the entry has a start and an end
AllComplete(entry) ==
  \A k \in DOMAIN entry \ {ChunkIdProperty} : Has(entry[k], "start") /\ Has(entry[k], "end")

\* the sum of the gaps between the intervals of the entry that do not end
\* after the start of the final step, sorted by start then by end
GapsBeforeFinal(entry) ==
  LET keys == {k \in DOMAIN entry \ {ChunkIdProperty} :
                 entry[k]["end"] <= entry[FinalStep]["start"]}
      sorted == SortIntervals(entry, keys)
  IN SumSeq([i \in 1..Len(sorted) - 1 |-> sorted[i + 1]["start"] - sorted[i]["end"]])

\* C13: once computeStats has run, the queued duration of an entry whose
\* intervals are all complete is the sum, over the intervals that do not end
\* after the start of the final step sorted by start then by end, of the next
\* interval's start minus the interval's end.
C13_QueuedIsSumOfGaps ==
  report # NoReport =>
    \A i \in 1..Len(times) :
      (AllComplete(times[i]) /\ Has(times[i], FinalStep)) =>
        report.durations[i].queued = {GapsBeforeFinal(times[i])}

\* C38: once computeStats has run, every entry whose queued duration is
\* available counts for one value in the aggregate queued statistics, an
\* entry whose queued duration is 0 included
C38_QueuedCountsEveryEntry ==
  report # NoReport =>
    report.queued.count =
      Cardinality({i \in 1..Len(report.durations) : report.durations[i].queued # {}})

\* the intervals of the entry that count for its queued duration: those that
\* do not start after the final step, all of them when the final step has not
\* begun
RelevantSteps(entry) ==
  {k \in DOMAIN entry \ {ChunkIdProperty} :
     (HasStart(entry, FinalStep) /\ HasStart(entry, k)) =>
       entry[k]["start"] <= entry[FinalStep]["start"]}

\* one of these intervals lacks its start or its end
Unresolved(entry) ==
  \E k \in RelevantSteps(entry) : ~Has(entry[k], "start") \/ ~Has(entry[k], "end")

-----------------------------------------------------------------------------
(* The store under addEntries: the store and the array are drawn in Init *)

\* identifiers of the entries passed to addEntry; 0 is the identifier of the
\* configuration chunk of the encode stage (src/worker-transform.js:166)
ChunkIds == {0, 1, 2}

\* the entries passed to addEntry: a display observation (part_000:430-433),
\* with or without an identifier, or an entry of a stage cache
BatchEntries ==
  {[display |-> [start |-> 1]]}
  \cup {[id |-> id, display |-> [start |-> s]] : id \in ChunkIds, s \in {1, 2}}
  \cup {[id |-> id, input |-> [start |-> 1, end |-> 1], final |-> [start |-> 3, end |-> 4]] :
          id \in ChunkIds}

Batches == UNION {[1..n -> BatchEntries] : n \in 0..MaxBatch}

InitStore ==
  /\ times \in {AddEntries(<<>>, b) : b \in Batches}
  /\ batch \in Batches
  /\ calls = 0
  /\ report = NoReport
  /\ console = 0
  /\ NoRun
  /\ NewPipeline
  /\ NoFrames
  /\ NothingElse
  /\ NoStage

\* timesDB.addEntries(batch)
AddEntriesCall ==
  /\ calls < MaxCalls
  /\ times' = AddEntries(times, batch)
  /\ batch' = AliasedEntries(times, batch)
  /\ calls' = calls + 1
  /\ UNCHANGED <<otherVars, frameVars, stageVars, report, console, runVars, workerVars>>

\* timesDB.reset()
Reset ==
  /\ times' = <<>>
  /\ calls' = 0
  /\ UNCHANGED <<otherVars, frameVars, stageVars, report, batch, console, runVars, workerVars>>

NextStore == AddEntriesCall \/ Reset

SpecStore == InitStore /\ [][NextStore]_vars

\* C39: after addEntries, every entry of the batch that carries the identifier
\* property, whatever its value (0 included), is in the store and find
\* returns it
C39_IdentifiedEntryStored ==
  calls > 0 =>
    \A k \in 1..Len(batch) :
      Has(batch[k], ChunkIdProperty) =>
        FindIndex(times, batch[k][ChunkIdProperty]) # 0

-----------------------------------------------------------------------------
(* A run, from Start to the report: each frame goes through the input stage
   (main thread), the stages of the transform worker, the overlay worker and
   the final stage (main thread); the display callback observes the frames;
   Stop makes the workers post their caches, which the main thread merges. *)

\* timestamp of the configuration chunk (src/worker-transform.js:166)
ConfigTimestamp == 0

\* identifier of the n-th missed frame (`missed-${n}`), kept apart from the
\* timestamps by its sign
MissedId(n) == 0 - (n + 1)

\* startMedia was called: the caches and the store are empty
InitRun ==
  /\ times = <<>>
  /\ report = NoReport
  /\ batch = <<>>
  /\ calls = 0
  /\ console = 0
  /\ running = TRUE
  /\ now = 1
  /\ stats = [c \in Contexts |-> <<>>]
  /\ done = [p \in {"input", "transform", "overlay", "final"} |-> 0]
  /\ missedCounter = 0
  /\ inbox = [w \in Workers |-> <<>>]
  /\ statsMsg = [w \in Workers |-> <<>>]
  /\ reportedStats = <<>>
  /\ NewPipeline
  /\ NoFrames
  /\ NothingElse
  /\ NoStage

\* Number of clicks on Start
MaxRuns == 2

\* performance.timeOrigin + performance.now() when frame k of the run is at
\* the given point of its way through the pipeline: the frames are
\* FramePeriod apart, and a run starts after the last frame of the run before
FrameTime(k, point) == ((runs - 1) * (MaxFrames + 1) + k) * FramePeriod + point

\* the run during which the clock read t
RunOf(t) == (t \div ((MaxFrames + 1) * FramePeriod)) + 1

\* the worker has not handled the 'start' message of the run yet: the streams
\* of the run, which come with the message, are not piped through its stages
HasToStart(w) == \E i \in 1..Len(inbox[w]) : inbox[w][i] = "start"

\* inputTransform processes the next frame of the input
InputStage ==
  /\ running
  /\ done["input"] < MaxFrames
  /\ LET k == done["input"] + 1
     IN stats' = [stats EXCEPT !["main"] =
                   RecordStage(@, k, "input", FrameTime(k, 0), FrameTime(k, 0), FrameTime(k, 0))]
  /\ done' = [done EXCEPT !["input"] = @ + 1]
  /\ UNCHANGED <<otherVars, frameVars, stageVars, workerVars, dbVars, callerVars, console, running, now, missedCounter,
                 inbox, statsMsg, reportedStats>>

\* the transform worker processes the next frame: toRGBX, encode (the first
\* output of the encoder comes with the configuration chunk) and decode; the
\* encoder and the decoder enqueue on the controller that start received,
\* which sets no end
TransformStages ==
  /\ done["transform"] < done["input"]
  /\ ~HasToStart("transformWorker")
  /\ LET k == done["transform"] + 1
         s1 == RecordStage(stats["transformWorker"], k, "toRGBX",
                           FrameTime(k, 1), FrameTime(k, 2), FrameTime(k, 2))
         s2 == RecordStageNoEnqueue(s1, k, "encode", FrameTime(k, 2), FrameTime(k, 3))
         s3 == IF k = 1
               THEN RecordStageNoEnqueue(s2, ConfigTimestamp, "decode",
                                         FrameTime(k, 3), FrameTime(k, 3))
               ELSE s2
         s4 == RecordStageNoEnqueue(s3, k, "decode", FrameTime(k, 3), FrameTime(k, 4))
     IN stats' = [stats EXCEPT !["transformWorker"] = s4]
  /\ done' = [done EXCEPT !["transform"] = @ + 1]
  /\ UNCHANGED <<otherVars, frameVars, stageVars, workerVars, dbVars, callerVars, console, running, now, missedCounter,
                 inbox, statsMsg, reportedStats>>

\* the overlay worker processes the next frame
OverlayStage ==
  /\ done["overlay"] < done["transform"]
  /\ ~HasToStart("transformWorker")
  /\ ~HasToStart("overlayWorker")
  /\ LET k == done["overlay"] + 1
     IN stats' = [stats EXCEPT !["overlayWorker"] =
                   RecordStage(@, k, "overlay", FrameTime(k, 5), FrameTime(k, 6), FrameTime(k, 6))]
  /\ done' = [done EXCEPT !["overlay"] = @ + 1]
  /\ UNCHANGED <<otherVars, frameVars, stageVars, workerVars, dbVars, callerVars, console, running, now, missedCounter,
                 inbox, statsMsg, reportedStats>>

\* closeTransform processes the next frame
FinalStage ==
  /\ done["final"] < done["overlay"]
  /\ ~HasToStart("overlayWorker")
  /\ LET k == done["final"] + 1
     IN stats' = [stats EXCEPT !["main"] =
                   RecordStage(@, k, "final", FrameTime(k, 7), FrameTime(k, 7), FrameTime(k, 7))]
  /\ done' = [done EXCEPT !["final"] = @ + 1]
  /\ UNCHANGED <<otherVars, frameVars, stageVars, workerVars, dbVars, callerVars, console, running, now, missedCounter,
                 inbox, statsMsg, reportedStats>>

\* the last frame the display callback has seen, 0 when it has seen none
Displayed ==
  Max({0} \cup {times[i][ChunkIdProperty] : i \in 1..Len(times)})

\* processFrame: the display callback reports `missed` frames as missed and
\* reads the timestamp of frame frameIndex in the pixels of the video: the
\* frame it read last, or the one that reached the video element after it.
\* The missed frames and the frame get the expected display time of the call.
ProcessFrame(missed, frameIndex) ==
  /\ running
  /\ frameIndex \in 1..done["final"]
  /\ missedCounter + missed <= MaxMissed
  /\ LET dupl == FindIndex(times, frameIndex) # 0
         expectedDisplayTime == FrameTime(frameIndex, IF dupl THEN 9 ELSE 8)
         withMissed ==
           IF missed = 1
           THEN AddEntry(times, [id |-> MissedId(missedCounter),
                                 display |-> [start |-> expectedDisplayTime]])
           ELSE times
     IN /\ dupl => console < MaxLog
        /\ console' = IF dupl THEN console + 1 ELSE console
        /\ times' = AddEntry(withMissed, [id |-> frameIndex,
                                         display |-> [start |-> expectedDisplayTime]])
  /\ missedCounter' = missedCounter + missed
  /\ UNCHANGED <<otherVars, frameVars, stageVars, workerVars, report, callerVars, running, now, stats, done, inbox, statsMsg,
                 reportedStats>>

\* click on Stop: the workers are told to stop and the video frame callback
\* whose handle is kept, if any, is cancelled
StopClick ==
  /\ running
  /\ running' = FALSE
  /\ inbox' = [w \in Workers |-> Append(inbox[w], "stop")]
  /\ registered' = IF rvfcHandle # 0 THEN registered \ {rvfcHandle} ELSE registered
  /\ rvfcHandle' = 0
  /\ UNCHANGED <<nameVars, sessionVars, laterVars, config, prevPresentedFrames, lastHandle,
                 added, thrown, frameVars, stageVars, workerVars, dbVars, callerVars, console, now, stats, done, missedCounter,
                 statsMsg, reportedStats>>

\* click on Start, and startMedia: the store, the cache of the main thread and
\* the reported caches are reset, a new pipeline is built and the workers get
\* its streams in a 'start' message.  The frames the pipeline of the run
\* before still held are left where they are.
StartClick ==
  /\ ~running
  /\ runs < MaxRuns
  /\ running' = TRUE
  /\ runs' = runs + 1
  /\ times' = <<>>
  /\ stats' = [stats EXCEPT !["main"] = <<>>]
  /\ reportedStats' = <<>>
  /\ missedCounter' = 0
  /\ done' = [done EXCEPT !["input"] = 0, !["final"] = 0]
  /\ inbox' = [w \in Workers |-> Append(inbox[w], "start")]
  /\ UNCHANGED <<nameVars, reports, laterVars, restVars, frameVars, stageVars, workerVars, report, callerVars,
                 console, now, statsMsg>>

\* a worker handles 'start': it resets its cache and pipes the streams of the
\* run through its stages
WorkerStart(w) ==
  /\ Receives(w, "start")
  /\ inbox' = [inbox EXCEPT ![w] = Tail(@)]
  /\ stats' = [stats EXCEPT ![w] = <<>>]
  /\ done' = [done EXCEPT ![IF w = "transformWorker" THEN "transform" ELSE "overlay"] = 0]
  /\ UNCHANGED <<otherVars, frameVars, stageVars, workerVars, dbVars, callerVars, console,
                 running, now, missedCounter, statsMsg, reportedStats>>

\* a 'stop' handler that resets the cache before it collects it
WorkerStopResetFirst(w) ==
  /\ Receives(w, "stop")
  /\ inbox' = [inbox EXCEPT ![w] = Tail(@)]
  /\ statsMsg' = [statsMsg EXCEPT ![w] = Append(@, <<>>)]
  /\ stats' = [stats EXCEPT ![w] = <<>>]
  /\ UNCHANGED <<otherVars, frameVars, stageVars, workerVars, dbVars, callerVars, console, running, now, done, missedCounter,
                 reportedStats>>

\* a worker handles 'stop': it posts its cache and resets it
WorkerStop(w) ==
  /\ Receives(w, "stop")
  /\ inbox' = [inbox EXCEPT ![w] = Tail(@)]
  /\ statsMsg' = [statsMsg EXCEPT ![w] = Append(@, stats[w])]
  /\ stats' = [stats EXCEPT ![w] = <<>>]
  /\ UNCHANGED <<otherVars, frameVars, stageVars, workerVars, dbVars, callerVars, console, running, now, done, missedCounter,
                 reportedStats>>

\* reportStats: the store once the three caches were added
MergedStore(ts, mainStats, reported) ==
  LET s1 == AddEntries(ts, mainStats)
      s2 == IF Has(reported, "transformWorker")
            THEN AddEntries(s1, reported["transformWorker"]) ELSE s1
  IN IF Has(reported, "overlayWorker")
     THEN AddEntries(s2, reported["overlayWorker"]) ELSE s2

\* the main thread handles the 'stats' message of a worker, and reports when
\* the other worker has reported
StatsMessage(w) ==
  /\ statsMsg[w] # <<>>
  /\ statsMsg' = [statsMsg EXCEPT ![w] = Tail(@)]
  /\ reportedStats' = SetProp(reportedStats, w, statsMsg[w][1])
  /\ IF \A o \in Workers \ {w} : Has(reportedStats, o)
     THEN /\ times' = ResolveAll(MergedStore(times, stats["main"], reportedStats'))
          /\ report' = ReportOf(times')
          /\ stats' = [stats EXCEPT !["main"] = AliasedTo(times, @, times')]
          /\ reports' = reports + 1
     ELSE UNCHANGED <<times, report, stats, reports>>
  /\ UNCHANGED <<nameVars, runs, laterVars, restVars, frameVars, stageVars, workerVars, callerVars, console, running, now, done, missedCounter, inbox>>

NextRun ==
  \/ InputStage
  \/ TransformStages
  \/ OverlayStage
  \/ FinalStage
  \/ \E missed \in 0..1, frameIndex \in {Displayed, Displayed + 1} :
       ProcessFrame(missed, frameIndex)
  \/ StopClick
  \/ \E w \in Workers : WorkerStop(w)
  \/ \E w \in Workers : StatsMessage(w)

SpecRun == InitRun /\ [][NextRun]_vars

\* the first run is over: one frame went through the pipeline, Stop was
\* clicked and the two workers have posted their caches, which the main
\* thread has not handled yet
InitSession ==
  /\ NoStore
  /\ NewPipeline
  /\ NoFrames
  /\ NothingElse
  /\ NoStage
  /\ running = FALSE
  /\ now = 1
  /\ done = [p \in {"input", "transform", "overlay", "final"} |-> 1]
  /\ missedCounter = 0
  /\ inbox = [w \in Workers |-> <<>>]
  /\ reportedStats = <<>>
  /\ stats =
       [c \in Contexts |->
          IF c = "main"
          THEN RecordStage(
                 RecordStage(<<>>, 1, "input", FrameTime(1, 0), FrameTime(1, 0), FrameTime(1, 0)),
                 1, "final", FrameTime(1, 7), FrameTime(1, 7), FrameTime(1, 7))
          ELSE <<>>]
  /\ statsMsg =
       [w \in Workers |->
          IF w = "overlayWorker"
          THEN <<RecordStage(<<>>, 1, "overlay", FrameTime(1, 5), FrameTime(1, 6), FrameTime(1, 6))>>
          ELSE <<RecordStageNoEnqueue(
                   RecordStageNoEnqueue(
                     RecordStageNoEnqueue(
                       RecordStage(<<>>, 1, "toRGBX", FrameTime(1, 1), FrameTime(1, 2), FrameTime(1, 2)),
                       1, "encode", FrameTime(1, 2), FrameTime(1, 3)),
                     ConfigTimestamp, "decode", FrameTime(1, 3), FrameTime(1, 3)),
                   1, "decode", FrameTime(1, 3), FrameTime(1, 4))>>]

\* the runs that follow, with the clicks on Start
NextSession ==
  \/ NextRun
  \/ StartClick
  \/ \E w \in Workers : WorkerStart(w)

SpecSession == InitSession /\ [][NextSession]_vars

\* the workers alone, from the first click on Start: the clicks, the stages of
\* the workers and their 'start' and 'stop' handlers
NextPosts ==
  \/ InputStage
  \/ TransformStages
  \/ OverlayStage
  \/ StopClick
  \/ StartClick
  \/ \E w \in Workers : WorkerStart(w)
  \/ \E w \in Workers : WorkerStop(w)

SpecPosts == InitRun /\ [][NextPosts]_vars

-----------------------------------------------------------------------------
(* Claims on the runs of a session *)

\* the clock readings the store holds
StoreTimes(ts) ==
  UNION {UNION {{ts[i][step][f] : f \in DOMAIN ts[i][step]} :
                  step \in (DOMAIN ts[i]) \ {ChunkIdProperty}} :
           i \in 1..Len(ts)}

\* C23: when reportStats computes a report, the store it computes it from
\* holds clock readings of one run only: nothing recorded during another run
\* is in the report.
C23_ReportOfOneRun ==
  [][reports' = reports + 1 =>
       Cardinality({RunOf(t) : t \in StoreTimes(times')}) <= 1]_vars

\* the stage of a worker whose count of frames restarts with 'start', and the
\* timer its last stream sets
WorkerStage(w) == IF w = "transformWorker" THEN "transform" ELSE "overlay"
LastTimer(w) == IF w = "transformWorker" THEN "decode" ELSE "overlay"

StopClicks == (runs - 1) + (IF running THEN 0 ELSE 1)
StatsHandled(w) ==
  StopClicks - Cardinality({i \in 1..Len(inbox[w]) : inbox[w][i] = "stop"})
             - Len(statsMsg[w])

\* C25: the report is computed at most once per click on Stop, and the n-th
\* report only when the main thread has handled the 'stats' messages that
\* both workers posted for the n-th click.
C25_OneReportPerStop ==
  \A w \in Workers : reports <= StatsHandled(w)

\* the store holds an observation at display of frame x
SeenAtDisplay(ts, x) ==
  FindIndex(ts, x) # 0 /\ Has(ts[FindIndex(ts, x)], "display")

\* C28: when the display callback merges an observation of a frame into the
\* store, "seen already" is logged if the store held an observation of the
\* frame of this run, and nothing is logged if it held none.
C28_DuplicateIffSeen ==
  [][\A x \in 1..MaxFrames :
       /\ (/\ SeenAtDisplay(times, x) /\ SeenAtDisplay(times', x)
           /\ times'[FindIndex(times', x)]["display"]["start"]
                # times[FindIndex(times, x)]["display"]["start"])
          => console' > console
       /\ (~SeenAtDisplay(times, x) /\ SeenAtDisplay(times', x))
          => console' = console]_vars

-----------------------------------------------------------------------------
(* Claims on the merge of the caches *)

\* the entries of the three caches that reportStats merges, when the main
\* thread handles the message that makes it report
MergedCaches ==
  stats["main"] \o reportedStats'["transformWorker"] \o reportedStats'["overlayWorker"]

\* C6: once reportStats has merged the cache of the main thread and the caches
\* the two workers reported, the store holds exactly one entry for every
\* identifier that occurs in a cache, and that entry carries every interval the
\* caches recorded for the identifier.
C6_OneEntryPerIdentifier ==
  [][report = NoReport /\ report' # NoReport =>
       \A k \in 1..Len(MergedCaches) :
         LET e == MergedCaches[k]
             found == {i \in 1..Len(times') : times'[i][ChunkIdProperty] = e.id}
         IN /\ Cardinality(found) = 1
            /\ \A i \in found : \A step \in (DOMAIN e) \ {"id"} :
                 Has(times'[i], step) /\ times'[i][step] = e[step]]_vars

-----------------------------------------------------------------------------
(* Claims on addEntries *)

\* C5: addEntries is idempotent: calling addEntries(S) again after
\* addEntries(S) leaves the store as the first call left it.
C5_AddEntriesIdempotent ==
  [][calls >= 1 /\ calls' = calls + 1 => times' = times]_vars

\* addEntries(S) was called twice, S holding two entries for one identifier
\* (the second was merged into the first) that the store had not seen before
C5_Witness ==
  /\ calls = 2
  /\ Len(batch) = 2
  /\ HasChunkId(batch[1]) /\ HasChunkId(batch[2])
  /\ batch[2][ChunkIdProperty] = batch[1][ChunkIdProperty]
  /\ Has(batch[1], "display") /\ Has(batch[1], "final")
  /\ Len(times) = 2

\* C7: when addEntry receives, for an identifier and a step the store already
\* holds, an interval that differs from the stored one, the conflict is
\* written to the console rather than silently replacing the stored interval.
C7_ConflictSurfaced ==
  [][\A i \in 1..Len(times) :
       (/\ i <= Len(times')
        /\ \E step \in (DOMAIN times[i]) \ {ChunkIdProperty} :
             times'[i][step] # times[i][step])
       => console' > console]_vars

-----------------------------------------------------------------------------
(* The frames observed at display (part_005, part_006): the display callback
   reads the index of the frame in the pixels of the video and records it in
   frameTimes; the report is computed when the run is stopped. *)

\* Largest number of display callbacks of a run, and of records of frameTimes
MaxShown == 5

\* Largest frame index read in the pixels
MaxFrameIndex == 5

\* timestamp of the records pushed for missed frames (src/unnamed/part_005:336)
MissedTimestamp == -1

\* frame index to timestamp (src/unnamed/part_005:359)
TimestampScale == 1000

\* the values of colorsToTimestamp in part_006: -1 when no colour is
\* recognised, the index of the frame otherwise
FrameIndexes006 == -1..MaxFrameIndex

\* the frames part_005 sees at display
FrameIndexes005 == {5, 6, 7, 8, 9}

\* frameTimes.find(f => f[idProperty] === id) finds a record
FrameFound(ft, idProperty, id) ==
  \E i \in 1..Len(ft) : Has(ft[i], idProperty) /\ ft[i][idProperty] = id

\* frameTimes.slice(0, -1).forEach(f => f[name] = next[time] - f[time])
WithDurations(ft, name, time) ==
  [i \in 1..Len(ft) |->
     IF i < Len(ft) THEN SetProp(ft[i], name, ft[i + 1][time] - ft[i][time])
     ELSE ft[i]]

\* the loop of framestats_report over i, up to maxTimestamp
RECURSIVE MissedFrom(_, _, _)
MissedFrom(ft, i, maxTimestamp) ==
  IF i > maxTimestamp THEN <<>>
  ELSE (IF FrameFound(ft, "timestamp", i) THEN <<>> ELSE <<i>>)
       \o MissedFrom(ft, i + 1, maxTimestamp)

\* a loop that starts at 0
MissedFromZero(ft) ==
  MissedFrom(ft, 0, Max({ft[i]["timestamp"] : i \in 1..Len(ft)}))

\* framestats_report: missed, for a frameTimes that is not empty
Missed(ft) ==
  MissedFrom(ft, 1, Max({ft[i]["timestamp"] : i \in 1..Len(ft)}))

\* an out-of-order filter that compares with the first record
OutOfOrderAgainstFirst(ft, idProperty) ==
  LET flagged == SelectSeq([i \in 1..Len(ft) |-> i], LAMBDA i :
                   /\ i > 1
                   /\ Has(ft[1], idProperty) /\ Has(ft[i], idProperty)
                   /\ ft[1][idProperty] > ft[i][idProperty])
  IN [k \in 1..Len(flagged) |-> ft[flagged[k]]]

\* framestats_report: outoforder.  A comparison with a record that has no
\* identifier is false.
OutOfOrder(ft, idProperty) ==
  LET flagged == SelectSeq([i \in 1..Len(ft) |-> i], LAMBDA i :
                   /\ i > 1
                   /\ Has(ft[i - 1], idProperty) /\ Has(ft[i], idProperty)
                   /\ ft[i - 1][idProperty] > ft[i][idProperty])
  IN [k \in 1..Len(flagged) |-> ft[flagged[k]]]

\* framestats_report of part_006, on the records with their durations
FramestatsReport006(ft) ==
  [all |-> [i \in 1..Len(ft) |->
              IF Has(ft[i], "duration")
              THEN [ts |-> ft[i]["timestamp"], dur |-> ft[i]["duration"]]
              ELSE [ts |-> ft[i]["timestamp"]]],
   diff |-> ComputeStatsOf([i \in 1..Len(ft) - 1 |-> ft[i]["duration"]]),
   missed |-> Missed(ft),
   outoforder |-> OutOfOrder(ft, "timestamp")]

\* startMedia was called
InitFrames ==
  /\ times = <<>>
  /\ report = NoReport
  /\ batch = <<>>
  /\ calls = 0
  /\ console = 0
  /\ running = TRUE
  /\ now = 1
  /\ stats = [c \in Contexts |-> <<>>]
  /\ done = [p \in {"input", "transform", "overlay", "final"} |-> 0]
  /\ missedCounter = 0
  /\ inbox = [w \in Workers |-> <<>>]
  /\ statsMsg = [w \in Workers |-> <<>>]
  /\ reportedStats = <<>>
  /\ NewPipeline
  /\ NoFrames
  /\ NothingElse
  /\ NoStage

\* processFrame of part_006, called at time now: `missed` frames were not
\* presented since the last call (which is logged), and the pixels give
\* frameIndex
ProcessFrame006(missed, frameIndex) ==
  /\ running
  /\ now <= MaxShown
  /\ missed > 0 => console < MaxLog
  /\ console' = IF missed > 0 THEN console + 1 ELSE console
  /\ frameTimes' = IF FrameFound(frameTimes, "timestamp", frameIndex) THEN frameTimes
                   ELSE Append(frameTimes, [timestamp |-> frameIndex, end |-> now])
  /\ now' = now + 1
  /\ UNCHANGED <<otherVars, frameReport, stageVars, workerVars, dbVars, callerVars, running, stats,
                 done, missedCounter, inbox, statsMsg, reportedStats>>

\* stop of part_006: the transform worker is told to stop and the report is
\* computed and logged when a frame was observed
Stop006 ==
  /\ running
  /\ running' = FALSE
  /\ inbox' = [inbox EXCEPT !["transformWorker"] = Append(@, "stop")]
  /\ IF Len(frameTimes) > 0
     THEN /\ frameTimes' = WithDurations(frameTimes, "duration", "end")
          /\ frameReport' = FramestatsReport006(frameTimes')
     ELSE UNCHANGED <<frameTimes, frameReport>>
  /\ UNCHANGED <<otherVars, stageVars, workerVars, dbVars, callerVars, console, now, stats, done,
                 missedCounter, statsMsg, reportedStats>>

NextFrames006 ==
  \/ \E missed \in 0..MaxMissed, frameIndex \in FrameIndexes006 :
       ProcessFrame006(missed, frameIndex)
  \/ Stop006

SpecFrames006 == InitFrames /\ [][NextFrames006]_vars

\* the record of a missed frame, n times
RECURSIVE MissedRecords(_, _)
MissedRecords(n, expectedDisplayTime) ==
  IF n = 0 THEN <<>>
  ELSE <<[timestamp |-> MissedTimestamp, expectedDisplayTime |-> expectedDisplayTime]>>
       \o MissedRecords(n - 1, expectedDisplayTime)

\* processFrame of part_005, with expectedDisplayTime = now: a record is
\* pushed for each missed frame, then one for the frame whose index the pixels
\* give, whether frameTimes has that frame or not (which is logged)
ProcessFrame005(missed, frameIndex) ==
  /\ running
  /\ Len(frameTimes) + missed + 1 <= MaxShown
  /\ LET ts == frameIndex * TimestampScale
         logs == (IF missed > 0 THEN 1 ELSE 0)
                 + (IF FrameFound(frameTimes, "ts", ts) THEN 1 ELSE 0)
     IN /\ console' = console + logs
        /\ frameTimes' = frameTimes \o MissedRecords(missed, now)
                         \o <<[ts |-> ts, expectedDisplayTime |-> now]>>
  /\ now' = now + 1
  /\ UNCHANGED <<otherVars, frameReport, stageVars, workerVars, dbVars, callerVars, running, stats,
                 done, missedCounter, inbox, statsMsg, reportedStats>>

\* stop of part_005
Stop005 ==
  /\ running
  /\ running' = FALSE
  /\ inbox' = [inbox EXCEPT !["transformWorker"] = Append(@, "stop")]
  /\ UNCHANGED <<otherVars, frameVars, stageVars, workerVars, dbVars, callerVars, console, now,
                 stats, done, missedCounter, statsMsg, reportedStats>>

\* framestats_report of part_005, on the records with their display
\* durations: the statistics of the display durations and the frames out of
\* order (the other fields of the report are computed from the caches of the
\* stages)
FramestatsReport005(ft) ==
  [display |-> ComputeStatsOf(SelectSeq([i \in 1..Len(ft) - 1 |-> ft[i]["displayDuration"]],
                                        LAMBDA dur : dur > 0)),
   outoforder |-> OutOfOrder(ft, "ts")]

\* the main thread of part_005 handles the 'stats' message of the transform
\* worker: when a frame was observed it computes the report, which collects
\* and resets the cache of the main thread, and logs it
StatsMessage005 ==
  /\ statsMsg["transformWorker"] # <<>>
  /\ statsMsg' = [statsMsg EXCEPT !["transformWorker"] = Tail(@)]
  /\ IF Len(frameTimes) > 0
     THEN /\ frameTimes' = WithDurations(frameTimes, "displayDuration", "expectedDisplayTime")
          /\ frameReport' = FramestatsReport005(frameTimes')
          /\ stats' = [stats EXCEPT !["main"] = <<>>]
     ELSE UNCHANGED <<frameTimes, frameReport, stats>>
  /\ UNCHANGED <<otherVars, stageVars, workerVars, dbVars, callerVars, console, running, now, done,
                 missedCounter, inbox, reportedStats>>

NextFrames005 ==
  \/ \E missed \in 0..MaxMissed, frameIndex \in FrameIndexes005 :
       ProcessFrame005(missed, frameIndex)
  \/ Stop005
  \/ WorkerStop("transformWorker")
  \/ StatsMessage005

SpecFrames005 == InitFrames /\ [][NextFrames005]_vars

-----------------------------------------------------------------------------
(* Claims on the frames observed at display *)

\* the identifiers observed at display
Observed == {frameTimes[i]["timestamp"] : i \in 1..Len(frameTimes)}

\* C16: once the report is computed, the missed list is the ascending list of
\* the integers i with 1 <= i <= max(observed) that no record has for
\* identifier; for the observed identifiers {1, 2, 4, 5} it is [3].
C16_MissedIsTheGaps ==
  frameReport # NoReport =>
    LET missed == frameReport.missed
        gaps == {i \in 1..Max(Observed) : i \notin Observed}
    IN /\ Range(missed) = gaps
       /\ \A k \in 1..Len(missed) - 1 : missed[k] < missed[k + 1]
       /\ Observed = {1, 2, 4, 5} => missed = <<3>>

\* the frames 1, 2, 4 and 5 were observed and the report was computed
C16_Witness ==
  /\ frameReport # NoReport
  /\ Observed = {1, 2, 4, 5}
  /\ frameReport.missed = <<3>>

\* the identifiers of the records, in display order (0 for the record of a
\* missed frame, which has none)
DisplayOrder ==
  [i \in 1..Len(frameTimes) |->
     IF Has(frameTimes[i], "ts") THEN frameTimes[i]["ts"] ELSE 0]

\* C17: once the report is computed, the out-of-order list holds exactly the
\* records whose identifier is less than the identifier of the record right
\* before them, in display order; for the frames 5, 6, 8, 7, 9 it holds the
\* record of frame 7 and no other.
C17_OutOfOrderIsLessThanPrevious ==
  frameReport # NoReport =>
    LET late == SelectSeq([i \in 1..Len(frameTimes) |-> i], LAMBDA i :
                  /\ i > 1
                  /\ Has(frameTimes[i], "ts") /\ Has(frameTimes[i - 1], "ts")
                  /\ frameTimes[i]["ts"] < frameTimes[i - 1]["ts"])
    IN /\ frameReport.outoforder = [k \in 1..Len(late) |-> frameTimes[late[k]]]
       /\ DisplayOrder = <<5000, 6000, 8000, 7000, 9000>> =>
            /\ Len(frameReport.outoforder) = 1
            /\ frameReport.outoforder[1]["ts"] = 7000

\* the frames 5, 6, 8, 7, 9 were displayed in that order and the report was
\* computed
C17_Witness ==
  /\ frameReport # NoReport
  /\ DisplayOrder = <<5000, 6000, 8000, 7000, 9000>>
  /\ Len(frameReport.outoforder) = 1

-----------------------------------------------------------------------------
(* One InstrumentedTransformStream of the main thread on its own (part_009):
   the stream calls the instrumented transform for one chunk at a time; the
   transform it wraps is the default one or one of the user, which calls
   enqueue or error on the controller it is given any number of times and
   then returns, throws, or returns a promise that resolves or rejects. *)

\* the clock is read at t, now or later
Reads(t) == t \in {now, now + 1} /\ t <= MaxTime

\* Number of chunks written to the stream
MaxChunks == 2

\* Largest number of enqueue calls of one call of a user transform
MaxEnqueues == 2

\* what the constructor may receive: nothing, a transformer without a
\* transform method, a transformer with one
Transformers == {"absent", "noTransform", "user"}

\* a constructor without the test of transformer.transform
TransformerKeepsMissing(arg) ==
  IF arg = "absent" THEN "default" ELSE arg

\* the transform the instrumented transform calls: the default one, which
\* enqueues the chunk, when there is no transformer or no transform method
Transformer(arg) ==
  IF arg \in {"absent", "noTransform"} THEN "default" ELSE arg

\* timerName of a transformer that has no name, for the first stream built
TimerName == "timer-0"

\* the identifier '__unidentified' (src/unnamed/part_009:139), as a number
\* that no timestamp takes
Unidentified == 0 - 1000

\* chunk?.[idProperty] ?? '__unidentified', idProperty being 'timestamp'
ChunkId(chunk) ==
  IF Has(chunk, "timestamp") THEN chunk["timestamp"] ELSE Unidentified

\* InstrumentedTransformStreamController.error at time t, on the timer stat
ControllerError(stat, t) ==
  IF Has(stat, "end") /\ stat["end"] # 0 THEN stat ELSE SetProp(stat, "end", t)

InitStage ==
  /\ times = <<>>
  /\ report = NoReport
  /\ batch = <<>>
  /\ calls = 0
  /\ console = 0
  /\ running = TRUE
  /\ now = 1
  /\ stats = [c \in Contexts |-> <<>>]
  /\ done = [p \in {"input", "transform", "overlay", "final"} |-> 0]
  /\ missedCounter = 0
  /\ inbox = [w \in Workers |-> <<>>]
  /\ statsMsg = [w \in Workers |-> <<>>]
  /\ reportedStats = <<>>
  /\ NewPipeline
  /\ NoFrames
  /\ NothingElse
  /\ transformer \in Transformers
  /\ readable = <<>>
  /\ transformCall = <<>>

\* the stream calls the instrumented transform for the next chunk, at t: the
\* timer is begun and the wrapped transform is called.  The default
\* transform enqueues the chunk, at t2, and returns; calling a transform
\* method that is not there throws.  The chunk has a timestamp (identified)
\* or has none.
TransformCall(t, t2, identified) ==
  /\ transformCall = <<>>
  /\ ~errored
  /\ done["input"] < MaxChunks
  /\ Reads(t)
  /\ LET chunk == IF identified THEN [timestamp |-> done["input"] + 1]
                                 ELSE [data |-> done["input"] + 1]
         begun == StartTimer(stats["main"], ChunkId(chunk), TimerName, t)
         kind == Transformer(transformer)
     IN IF kind = "default"
        THEN /\ t2 \in {t, t + 1} /\ t2 <= MaxTime
             /\ stats' = [stats EXCEPT !["main"] =
                           WithTimer(begun, ChunkId(chunk), TimerName,
                             ControllerEnqueue(Timer(begun, ChunkId(chunk), TimerName), t2))]
             /\ readable' = Append(readable, chunk)
             /\ transformCall' = <<[chunk |-> chunk, enqueued |-> 1, state |-> "fulfilled"]>>
        ELSE /\ t2 = t
             /\ stats' = [stats EXCEPT !["main"] = begun]
             /\ transformCall' =
                  <<[chunk |-> chunk, enqueued |-> 0,
                     state |-> IF kind = "user" THEN "running" ELSE "rejected"]>>
             /\ UNCHANGED readable
  /\ done' = [done EXCEPT !["input"] = @ + 1]
  /\ now' = t2
  /\ UNCHANGED <<otherVars, frameVars, transformer, dbVars, callerVars, console, running,
                 missedCounter, inbox, statsMsg, reportedStats, encoderState,
                 decoderState, configuring, cur, queue, microtasks, encoding, decoding,
                 configSent, errored, pendingOutputs>>

\* the user transform calls controller.enqueue at t: the end of the timer is
\* set, then the underlying controller takes the chunk, or throws when the
\* stream is errored
UserEnqueue(t) ==
  /\ transformCall # <<>>
  /\ transformCall[1].state = "running"
  /\ transformCall[1].enqueued < MaxEnqueues
  /\ Reads(t)
  /\ LET id == ChunkId(transformCall[1].chunk)
     IN stats' = [stats EXCEPT !["main"] =
                   WithTimer(@, id, TimerName, ControllerEnqueue(Timer(@, id, TimerName), t))]
  /\ IF errored
     THEN /\ transformCall' = <<[transformCall[1] EXCEPT !.state = "rejected"]>>
          /\ UNCHANGED readable
     ELSE /\ transformCall' = <<[transformCall[1] EXCEPT !.enqueued = @ + 1]>>
          /\ readable' = Append(readable, transformCall[1].chunk)
  /\ now' = t
  /\ UNCHANGED <<otherVars, frameVars, transformer, dbVars, callerVars, console, running, done,
                 missedCounter, inbox, statsMsg, reportedStats, encoderState,
                 decoderState, configuring, cur, queue, microtasks, encoding, decoding,
                 configSent, errored, pendingOutputs>>

\* the user transform calls controller.error at t
UserError(t) ==
  /\ transformCall # <<>>
  /\ transformCall[1].state = "running"
  /\ ~errored
  /\ Reads(t)
  /\ LET id == ChunkId(transformCall[1].chunk)
     IN stats' = [stats EXCEPT !["main"] =
                   WithTimer(@, id, TimerName, ControllerError(Timer(@, id, TimerName), t))]
  /\ errored' = TRUE
  /\ now' = t
  /\ UNCHANGED <<otherVars, frameVars, stageVars, dbVars, callerVars, console, running, done,
                 missedCounter, inbox, statsMsg, reportedStats, encoderState,
                 decoderState, configuring, cur, queue, microtasks, encoding, decoding,
                 configSent, pendingOutputs>>

\* the user transform is over: it returned or its promise resolved (ok), it
\* threw or its promise rejected (not ok)
UserSettles(ok) ==
  /\ transformCall # <<>>
  /\ transformCall[1].state = "running"
  /\ transformCall' =
       <<[transformCall[1] EXCEPT !.state = IF ok THEN "fulfilled" ELSE "rejected"]>>
  /\ UNCHANGED <<otherVars, frameVars, transformer, readable, workerVars, dbVars, callerVars,
                 console, runVars>>

\* the instrumented transform resumes after its await, at t: it sets the end
\* unless it is set, or it throws what the user transform threw, and the
\* stream becomes errored
TransformCompletes(t) ==
  /\ transformCall # <<>>
  /\ transformCall[1].state \in {"fulfilled", "rejected"}
  /\ Reads(t)
  /\ LET id == ChunkId(transformCall[1].chunk)
     IN IF transformCall[1].state = "fulfilled"
        THEN /\ stats' = [stats EXCEPT !["main"] =
                           WithTimer(@, id, TimerName, CompleteTimer(Timer(@, id, TimerName), t))]
             /\ UNCHANGED errored
        ELSE /\ errored' = TRUE
             /\ UNCHANGED stats
  /\ transformCall' = <<>>
  /\ now' = t
  /\ UNCHANGED <<otherVars, frameVars, transformer, readable, dbVars, callerVars, console, running,
                 done, missedCounter, inbox, statsMsg, reportedStats, encoderState,
                 decoderState, configuring, cur, queue, microtasks, encoding, decoding,
                 configSent, pendingOutputs>>

NextInstrumented ==
  \/ \E t, t2 \in 1..MaxTime, identified \in BOOLEAN : TransformCall(t, t2, identified)
  \/ \E t \in 1..MaxTime : UserEnqueue(t)
  \/ \E t \in 1..MaxTime : UserError(t)
  \/ \E ok \in BOOLEAN : UserSettles(ok)
  \/ \E t \in 1..MaxTime : TransformCompletes(t)

SpecStage == InitStage /\ [][NextInstrumented]_vars

-----------------------------------------------------------------------------
(* Claims on the stage *)

\* the timer of the chunk of the call in progress, in the cache st
CallTimer(st) == Timer(st, ChunkId(transformCall[1].chunk), TimerName)

\* C18: when a transform calls enqueue again for the chunk it was called
\* with, the end recorded for the chunk stays what the first enqueue made it.
C18_FirstEnqueueSetsEnd ==
  [][(/\ transformCall # <<>> /\ transformCall' # <<>>
      /\ transformCall[1].enqueued >= 1
      /\ transformCall'[1].enqueued = transformCall[1].enqueued + 1)
     => CallTimer(stats'["main"]) = CallTimer(stats["main"])]_vars

\* C19: when the stream is errored (the user transform threw, rejected or
\* called controller.error) and no transform call is in progress, every
\* interval the stage begun has an end.
C19_FailureClosesInterval ==
  (errored /\ transformCall = <<>>) =>
    \A e \in Range(stats["main"]) : Has(e[TimerName], "end")

C21_UnidentifiedChunkLeavesNoRecord ==
  \A i \in 1..Len(readable) :
    ~Has(readable[i], "timestamp") => StatsFind(stats["main"], ChunkId(readable[i])) = 0

-----------------------------------------------------------------------------
(* The pipeline of the transform worker, call by call.  A task (a message, a
   callback of the encoder or of the decoder) runs when the microtask queue is
   empty; the microtasks it queues run in order before the next task.  A chunk
   a stage enqueues waits in the queue of the next stage, which takes it in a
   later microtask, when it is idle and the stage after it has taken its own
   chunk (backpressure). *)

Pump(stage) == [kind |-> "pump", stage |-> stage, ok |-> TRUE]
Cont(stage, ok) == [kind |-> "cont", stage |-> stage, ok |-> ok]

Call(id, waiting) == <<[id |-> id, live |-> TRUE, waiting |-> waiting]>>

\* the stage after a stage of the pipe
NextStage(stage) == IF stage = "toRGBX" THEN "encode" ELSE "decode"

\* the stream calls the transform of the stage
CanStart(stage) ==
  /\ cur[stage] = <<>>
  /\ queue[stage] # <<>>
  /\ ~errored
  /\ stage # "decode" => queue[NextStage(stage)] = <<>>

\* an encode transform that does not wait for the output of the encoder
EncodeTransformNoWait(state) ==
  IF state = "closed" THEN [submit |-> FALSE, settle |-> "resolved"]
  ELSE IF state = "unconfigured" THEN [submit |-> FALSE, settle |-> "rejected"]
  ELSE [submit |-> TRUE, settle |-> "resolved"]

\* EncodeVideoStream.transform: whether the frame goes to encoder.encode, and
\* what the call returns: nothing when the encoder is closed, a promise that
\* encode rejects by throwing when the encoder is not configured, a promise
\* that the output callback resolves otherwise
EncodeTransform(state) ==
  IF state = "closed" THEN [submit |-> FALSE, settle |-> "resolved"]
  ELSE IF state = "unconfigured" THEN [submit |-> FALSE, settle |-> "rejected"]
  ELSE [submit |-> TRUE, settle |-> "output"]

\* DecodeVideoStream.transform
DecodeTransform(state, chunkId) ==
  IF state = "closed" THEN [submit |-> FALSE, settle |-> "resolved"]
  ELSE IF chunkId = ConfigTimestamp THEN [submit |-> FALSE, settle |-> "config"]
  ELSE IF state = "unconfigured" THEN [submit |-> FALSE, settle |-> "rejected"]
  ELSE [submit |-> TRUE, settle |-> "output"]

\* the microtasks queued when a transform returned r
Settled(stage, r) ==
  IF r.settle \in {"resolved", "rejected"}
  THEN <<Cont(stage, r.settle = "resolved")>>
  ELSE <<>>

InitWorker ==
  /\ times = <<>>
  /\ report = NoReport
  /\ batch = <<>>
  /\ calls = 0
  /\ console = 0
  /\ running = TRUE
  /\ now = 1
  /\ stats = [c \in Contexts |-> <<>>]
  /\ done = [p \in {"input", "transform", "overlay", "final"} |-> 0]
  /\ missedCounter = 0
  /\ inbox = [w \in Workers |-> <<>>]
  /\ statsMsg = [w \in Workers |-> <<>>]
  /\ reportedStats = <<>>
  /\ NewPipeline
  /\ NoFrames
  /\ NothingElse
  /\ NoStage

\* the pipe hands the next frame of the input to the toRGBX stage
FrameIn ==
  /\ microtasks = <<>>
  /\ ~errored
  /\ done["input"] < MaxFrames
  /\ queue["toRGBX"] = <<>>
  /\ queue' = [queue EXCEPT !["toRGBX"] = <<done["input"] + 1>>]
  /\ done' = [done EXCEPT !["input"] = @ + 1]
  /\ microtasks' = <<Pump("toRGBX")>>
  /\ UNCHANGED <<otherVars, frameVars, stageVars, pendingOutputs, dbVars, callerVars, console, running, now, stats, missedCounter,
                 inbox, statsMsg, reportedStats, encoderState, decoderState,
                 configuring, cur, encoding, decoding, configSent, errored>>

\* the toRGBX stage takes a frame: the instrumented transform starts the timer
\* at t, the converter enqueues the converted frame at t2 and returns
PumpToRGBX(t, t2) ==
  /\ microtasks # <<>>
  /\ Head(microtasks) = Pump("toRGBX")
  /\ IF CanStart("toRGBX")
     THEN LET id == Head(queue["toRGBX"])
          IN /\ Reads(t)
             /\ t2 \in {t, t + 1} /\ t2 <= MaxTime
             /\ stats' = [stats EXCEPT !["transformWorker"] =
                           LET begun == StartTimer(@, id, "toRGBX", t)
                           IN WithTimer(begun, id, "toRGBX",
                                ControllerEnqueue(Timer(begun, id, "toRGBX"), t2))]
             /\ cur' = [cur EXCEPT !["toRGBX"] = Call(id, "none")]
             /\ queue' = [queue EXCEPT !["toRGBX"] = Tail(@), !["encode"] = Append(@, id)]
             /\ microtasks' = Tail(microtasks) \o <<Pump("encode"), Cont("toRGBX", TRUE)>>
             /\ now' = t2
     ELSE /\ t = now /\ t2 = now
          /\ microtasks' = Tail(microtasks)
          /\ UNCHANGED <<stats, cur, queue, now>>
  /\ UNCHANGED <<otherVars, frameVars, stageVars, pendingOutputs, dbVars, callerVars, console, running, done, missedCounter,
                 inbox, statsMsg, reportedStats, encoderState, decoderState,
                 configuring, encoding, decoding, configSent, errored>>

\* the encode stage takes a frame at t
PumpEncode(t) ==
  /\ microtasks # <<>>
  /\ Head(microtasks) = Pump("encode")
  /\ IF CanStart("encode")
     THEN LET id == Head(queue["encode"])
              r == EncodeTransform(encoderState)
          IN /\ Reads(t)
             /\ stats' = [stats EXCEPT !["transformWorker"] = StartTimer(@, id, "encode", t)]
             /\ cur' = [cur EXCEPT !["encode"] =
                          Call(id, IF r.settle = "output" THEN "output" ELSE "none")]
             /\ encoding' = IF r.submit THEN Append(encoding, id) ELSE encoding
             /\ queue' = [queue EXCEPT !["encode"] = Tail(@)]
             /\ microtasks' = Tail(microtasks) \o <<Pump("toRGBX")>> \o Settled("encode", r)
             /\ now' = t
     ELSE /\ t = now
          /\ microtasks' = Tail(microtasks)
          /\ UNCHANGED <<stats, cur, encoding, queue, now>>
  /\ UNCHANGED <<otherVars, frameVars, stageVars, pendingOutputs, dbVars, callerVars, console, running, done, missedCounter,
                 inbox, statsMsg, reportedStats, encoderState, decoderState,
                 configuring, decoding, configSent, errored>>

\* the decode stage takes a chunk at t
PumpDecode(t) ==
  /\ microtasks # <<>>
  /\ Head(microtasks) = Pump("decode")
  /\ IF CanStart("decode")
     THEN LET id == Head(queue["decode"])
              r == DecodeTransform(decoderState, id)
          IN /\ Reads(t)
             /\ stats' = [stats EXCEPT !["transformWorker"] = StartTimer(@, id, "decode", t)]
             /\ cur' = [cur EXCEPT !["decode"] =
                          Call(id, IF r.settle \in {"output", "config"} THEN r.settle ELSE "none")]
             /\ decoding' = IF r.submit THEN Append(decoding, id) ELSE decoding
             /\ queue' = [queue EXCEPT !["decode"] = Tail(@)]
             /\ microtasks' = Tail(microtasks) \o <<Pump("encode")>> \o Settled("decode", r)
             /\ now' = t
     ELSE /\ t = now
          /\ microtasks' = Tail(microtasks)
          /\ UNCHANGED <<stats, cur, decoding, queue, now>>
  /\ UNCHANGED <<otherVars, frameVars, stageVars, pendingOutputs, dbVars, callerVars, console, running, done, missedCounter,
                 inbox, statsMsg, reportedStats, encoderState, decoderState,
                 configuring, encoding, configSent, errored>>

\* the instrumented transform of a stage resumes after its await, at t: the
\* user transform threw or rejected and so does the instrumented one, or the
\* end is set unless enqueue set it.  The entry of the call is no longer in
\* the cache when the cache was reset meanwhile.
Continuation(t) ==
  /\ microtasks # <<>>
  /\ Head(microtasks).kind = "cont"
  /\ Reads(t)
  /\ LET stage == Head(microtasks).stage
         call == cur[stage][1]
     IN /\ cur' = [cur EXCEPT ![stage] = <<>>]
        /\ IF Head(microtasks).ok
           THEN /\ stats' = [stats EXCEPT !["transformWorker"] =
                              IF call.live
                              THEN WithTimer(@, call.id, stage,
                                     CompleteTimer(Timer(@, call.id, stage), t))
                              ELSE @]
                /\ microtasks' = Tail(microtasks) \o <<Pump(stage)>>
                /\ UNCHANGED errored
           ELSE /\ errored' = TRUE
                /\ microtasks' = Tail(microtasks)
                /\ UNCHANGED stats
  /\ now' = t
  /\ UNCHANGED <<otherVars, frameVars, stageVars, pendingOutputs, dbVars, callerVars, console, running, done, missedCounter,
                 inbox, statsMsg, reportedStats, encoderState, decoderState,
                 configuring, queue, encoding, decoding, configSent>>

\* VideoEncoder.isConfigSupported(encodeConfig) settles
EncoderConfigure(supported) ==
  /\ microtasks = <<>>
  /\ configuring
  /\ configuring' = FALSE
  /\ IF supported /\ encoderState = "unconfigured"
     THEN encoderState' = "configured" /\ UNCHANGED console
     ELSE console' = console + 1 /\ UNCHANGED encoderState
  /\ UNCHANGED <<otherVars, frameVars, stageVars, pendingOutputs, dbVars, callerVars, running, now, stats, done, missedCounter,
                 inbox, statsMsg, reportedStats, decoderState, cur, queue,
                 microtasks, encoding, decoding, configSent, errored>>

\* the output callback of the encoder, for the oldest frame it holds
EncoderOutput ==
  /\ microtasks = <<>>
  /\ encoding # <<>>
  /\ LET id == Head(encoding)
         chunks == IF configSent THEN <<id>> ELSE <<ConfigTimestamp, id>>
         waiting == cur["encode"] # <<>> /\ cur["encode"][1].waiting = "output"
     IN /\ queue' = IF errored THEN queue
                    ELSE [queue EXCEPT !["decode"] = @ \o chunks]
        /\ cur' = IF waiting
                  THEN [cur EXCEPT !["encode"] = <<[@[1] EXCEPT !.waiting = "none"]>>]
                  ELSE cur
        /\ microtasks' =
             (IF configSent THEN <<>> ELSE <<Pump("decode")>>)
             \o (IF waiting THEN <<Cont("encode", TRUE)>> ELSE <<>>)
             \o <<Pump("decode")>>
  /\ configSent' = TRUE
  /\ encoding' = Tail(encoding)
  /\ UNCHANGED <<otherVars, frameVars, stageVars, pendingOutputs, dbVars, callerVars, console, running, now, stats, done,
                 missedCounter, inbox, statsMsg, reportedStats, encoderState,
                 decoderState, configuring, decoding, errored>>

\* VideoDecoder.isConfigSupported(config) settles for the configuration chunk
DecoderConfigure(supported) ==
  /\ microtasks = <<>>
  /\ cur["decode"] # <<>>
  /\ cur["decode"][1].waiting = "config"
  /\ cur' = [cur EXCEPT !["decode"] = <<[@[1] EXCEPT !.waiting = "none"]>>]
  /\ IF ~supported
     THEN /\ console' = console + 1
          /\ microtasks' = <<Cont("decode", TRUE)>>
          /\ UNCHANGED decoderState
     ELSE IF decoderState = "closed"
     THEN /\ microtasks' = <<Cont("decode", FALSE)>>
          /\ UNCHANGED <<console, decoderState>>
     ELSE /\ decoderState' = "configured"
          /\ microtasks' = <<Cont("decode", TRUE)>>
          /\ UNCHANGED console
  /\ UNCHANGED <<otherVars, frameVars, stageVars, pendingOutputs, dbVars, callerVars, running, now, stats, done, missedCounter,
                 inbox, statsMsg, reportedStats, encoderState, configuring,
                 queue, encoding, decoding, configSent, errored>>

\* the output callback of the decoder, for the oldest chunk it holds
DecoderOutput ==
  /\ microtasks = <<>>
  /\ decoding # <<>>
  /\ LET waiting == cur["decode"] # <<>> /\ cur["decode"][1].waiting = "output"
     IN /\ cur' = IF waiting
                  THEN [cur EXCEPT !["decode"] = <<[@[1] EXCEPT !.waiting = "none"]>>]
                  ELSE cur
        /\ microtasks' = IF waiting THEN <<Cont("decode", TRUE)>> ELSE <<>>
  /\ done' = [done EXCEPT !["transform"] = IF errored THEN @ ELSE @ + 1]
  /\ decoding' = Tail(decoding)
  /\ UNCHANGED <<otherVars, frameVars, stageVars, pendingOutputs, dbVars, callerVars, console, running, now, stats, missedCounter,
                 inbox, statsMsg, reportedStats, encoderState, decoderState,
                 configuring, queue, encoding, configSent, errored>>

\* the transform worker handles 'stop': it posts its cache, resets it and
\* closes the encoder and the decoder, which drop what they hold
TransformWorkerStop ==
  /\ microtasks = <<>>
  /\ Receives("transformWorker", "stop")
  /\ inbox' = [inbox EXCEPT !["transformWorker"] = Tail(@)]
  /\ statsMsg' = [statsMsg EXCEPT !["transformWorker"] = Append(@, stats["transformWorker"])]
  /\ stats' = [stats EXCEPT !["transformWorker"] = <<>>]
  /\ cur' = [s \in DOMAIN cur |->
               IF cur[s] = <<>> THEN <<>> ELSE <<[cur[s][1] EXCEPT !.live = FALSE]>>]
  /\ encoderState' = "closed"
  /\ decoderState' = "closed"
  /\ encoding' = <<>>
  /\ decoding' = <<>>
  /\ UNCHANGED <<otherVars, frameVars, stageVars, pendingOutputs, dbVars, callerVars, console, running, now, done, missedCounter,
                 reportedStats, configuring, queue, microtasks, configSent, errored>>

NextWorker ==
  \/ FrameIn
  \/ \E t, t2 \in 1..MaxTime : PumpToRGBX(t, t2)
  \/ \E t \in 1..MaxTime : PumpEncode(t)
  \/ \E t \in 1..MaxTime : PumpDecode(t)
  \/ \E t \in 1..MaxTime : Continuation(t)
  \/ \E supported \in BOOLEAN : EncoderConfigure(supported)
  \/ EncoderOutput
  \/ \E supported \in BOOLEAN : DecoderConfigure(supported)
  \/ DecoderOutput
  \/ StopClick
  \/ TransformWorkerStop

SpecWorker == InitWorker /\ [][NextWorker]_vars

\* the event loop of the transform worker runs every microtask and every task
\* that is ready: the steps of the streams, the callbacks of a codec that holds
\* a chunk, the settlement of isConfigSupported and the handler of a message.
\* Nothing obliges the user to press Stop.
FairWorker ==
  /\ SpecWorker
  /\ WF_vars(\E t, t2 \in 1..MaxTime : PumpToRGBX(t, t2))
  /\ WF_vars(\E t \in 1..MaxTime : PumpEncode(t))
  /\ WF_vars(\E t \in 1..MaxTime : PumpDecode(t))
  /\ WF_vars(\E t \in 1..MaxTime : Continuation(t))
  /\ WF_vars(\E supported \in BOOLEAN : EncoderConfigure(supported))
  /\ WF_vars(EncoderOutput)
  /\ WF_vars(\E supported \in BOOLEAN : DecoderConfigure(supported))
  /\ WF_vars(DecoderOutput)
  /\ WF_vars(TransformWorkerStop)

\* C34: every chunk handed to the encode stage or to the decode stage
\* eventually completes its transform: the call of the stage returns, so that
\* its interval gets an end and the stage can take the next chunk, also when
\* the codec is closed by 'stop' while the chunk is pending
C34_TransformCompletes ==
  /\ (cur["encode"] # <<>>) ~> (cur["encode"] = <<>>)
  /\ (cur["decode"] # <<>>) ~> (cur["decode"] = <<>>)

-----------------------------------------------------------------------------
(* The encode stage of the transform worker of part_003, which counts the
   outputs the encoder owes instead of waiting for them.  Its transform
   returns at once, and as long as the chunks the encoder outputs are taken by
   the decode stage, whose transform returns at once too, the stream calls it
   for every frame the input has. *)

\* the bound on pending_outputs (src/unnamed/part_003:113)
MaxPendingOutputs == 30

\* EncodeVideoStream.transform of part_003 for the next frame of the input
OldEncodeTransform ==
  /\ done["input"] < MaxOldFrames
  /\ done' = [done EXCEPT !["input"] = @ + 1]
  /\ IF pendingOutputs <= MaxPendingOutputs
     THEN /\ pendingOutputs' = pendingOutputs + 1
          /\ IF encoderState = "configured"
             THEN encoding' = Append(encoding, done["input"] + 1) /\ UNCHANGED console
             ELSE IF encoderState = "unconfigured"
             THEN console' = console + 1 /\ UNCHANGED encoding
             ELSE UNCHANGED <<console, encoding>>
     ELSE /\ console' = console + 1
          /\ UNCHANGED <<pendingOutputs, encoding>>
  /\ UNCHANGED <<otherVars, frameVars, stageVars, dbVars, callerVars, running, now, stats, missedCounter, inbox,
                 statsMsg, reportedStats, encoderState, decoderState, configuring,
                 cur, queue, microtasks, decoding, configSent, errored>>

\* the output callback of the encoder of part_003: the chunk goes to the
\* decode stage and on to the output of the worker
OldEncoderOutput ==
  /\ encoding # <<>>
  /\ encoding' = Tail(encoding)
  /\ configSent' = TRUE
  /\ pendingOutputs' = pendingOutputs - 1
  /\ done' = [done EXCEPT !["transform"] = @ + 1]
  /\ UNCHANGED <<otherVars, frameVars, stageVars, dbVars, callerVars, console, running, now, stats, missedCounter,
                 inbox, statsMsg, reportedStats, encoderState, decoderState,
                 configuring, cur, queue, microtasks, decoding, errored>>

\* the transform worker of part_003 handles 'stop'
OldWorkerStop ==
  /\ Receives("transformWorker", "stop")
  /\ inbox' = [inbox EXCEPT !["transformWorker"] = Tail(@)]
  /\ encoderState' = "closed"
  /\ decoderState' = "closed"
  /\ encoding' = <<>>
  /\ UNCHANGED <<otherVars, frameVars, stageVars, dbVars, callerVars, console, running, now, stats, done,
                 missedCounter, statsMsg, reportedStats, configuring, cur, queue,
                 microtasks, decoding, configSent, errored, pendingOutputs>>

NextOldEncode ==
  \/ OldEncodeTransform
  \/ OldEncoderOutput
  \/ \E supported \in BOOLEAN : EncoderConfigure(supported)
  \/ StopClick
  \/ OldWorkerStop

SpecOldEncode == InitWorker /\ [][NextOldEncode]_vars

-----------------------------------------------------------------------------
(* Claims on the stages of the transform worker *)

\* the entries of the cache of the transform worker, and of the cache it posted
WorkerEntries ==
  Range(stats["transformWorker"])
  \cup UNION {Range(statsMsg["transformWorker"][k]) :
                k \in 1..Len(statsMsg["transformWorker"])}

\* C1: once the transform worker has handled 'stop' and posted its cache, every
\* entry of the posted cache has a start and an end under every stage name it
\* carries (in a run where no transform threw or rejected).
C1_PostedIntervalsClosed ==
  ~errored =>
    \A k \in 1..Len(statsMsg["transformWorker"]) :
      \A e \in Range(statsMsg["transformWorker"][k]) :
        \A stage \in (DOMAIN e) \ {"id"} :
          Has(e[stage], "start") /\ Has(e[stage], "end")

C3_OneFrameInFlight == Len(encoding) <= 1

\* C4: every frame the encode stage receives while the encoder is configured
\* is passed to encoder.encode: none is dropped because of the outputs the
\* encoder owes.
C4_EveryFrameSubmitted ==
  [][done'["input"] = done["input"] + 1 /\ encoderState = "configured" =>
       encoding' = Append(encoding, done'["input"])]_vars

\* the encoder holds a frame while the next one waits at the encode stage
C3_Witness ==
  /\ Len(encoding) = 1
  /\ queue["encode"] # <<>>
  /\ cur["encode"] # <<>>
  /\ cur["encode"][1].waiting = "output"

-----------------------------------------------------------------------------
(* The timer names of the streams of a run.  Each context loads the class on
   its own (importScripts in the workers), so each has its own static
   #timerLastId, which nothing resets.  startMedia and the 'start' handlers
   build the streams of a run; the streams of the run before are dropped. *)

\* Number of streams built in one context for one run
MaxStages == 2

\* Largest value #timerLastId takes
MaxTimerId == 2

\* names the program gives to its streams
GivenNames == {"input", "overlay"}

\* `timer-${n}`
AutoName(n) == "timer-" \o ToString(n)

InitNames ==
  /\ NoStore
  /\ NoRun
  /\ NewPipeline
  /\ NoFrames
  /\ NothingElse
  /\ NoStage

\* new InstrumentedTransformStream(transformer) in context c: timerName is
\* transformer.name when the transformer has one (named), else the next
\* automatic name of the context
Construct(c, named, name) ==
  /\ Len(stageNames[c]) < MaxStages
  /\ ~named => timerLastId[c] < MaxTimerId
  /\ stageNames' = [stageNames EXCEPT ![c] =
       Append(@, [timerName |-> IF named THEN name ELSE AutoName(timerLastId[c]),
                  named |-> named])]
  /\ timerLastId' = IF named THEN timerLastId
                             ELSE [timerLastId EXCEPT ![c] = @ + 1]
  /\ UNCHANGED <<sessionVars, laterVars, restVars, frameVars, stageVars, workerVars, dbVars,
                 callerVars, console, runVars>>

\* the run is over and the next one starts: its streams are to be built
NextRunStarts ==
  /\ \E c \in Contexts : stageNames[c] # <<>>
  /\ stageNames' = [c \in Contexts |-> <<>>]
  /\ UNCHANGED <<timerLastId, sessionVars, laterVars, restVars, frameVars, stageVars, workerVars,
                 dbVars, callerVars, console, runVars>>

NextNames ==
  \/ \E c \in Contexts, named \in BOOLEAN, name \in GivenNames : Construct(c, named, name)
  \/ NextRunStarts

SpecNames == InitNames /\ [][NextNames]_vars

\* the streams of the run: context and position
StreamsOfRun ==
  {x \in Contexts \X (1..MaxStages) : x[2] <= Len(stageNames[x[1]])}

\* C22: the name of a stream of the run that was built without a name differs
\* from the name of every other stream of the run.
C22_AutoNamesDistinct ==
  \A x \in StreamsOfRun : \A y \in StreamsOfRun \ {x} :
    ~stageNames[x[1]][x[2]].named =>
      stageNames[x[1]][x[2]].timerName # stageNames[y[1]][y[2]].timerName

-----------------------------------------------------------------------------
(* The delay stages of the transform worker (worker-transform.js), one at a
   time.  The stage is an InstrumentedTransformStream: the stream calls its
   transform for one frame at a time, and the continuation of the
   instrumented transform runs before any timer.  The out-of-order stage
   hands a selected frame to a timer and returns; the longer stage returns a
   promise that the timer resolves.  The input of the pipe may end (Stop with
   a camera as input): the stream closes once no transform is in progress. *)

\* Number of frames written to the delay stage
MaxDelayFrames == 3

\* The timestamps of two frames in a row differ by one or three of these
FrameStep == 1000000

\* transformModes.outoforder, transformModes.longer
DelayModes == {"outoforder", "longer"}

\* elapsed > 5 * 1000 * 1000 selects a frame in the out-of-order stage,
\* elapsed > 2 * 1000 * 1000 in the longer stage
Threshold(mode) ==
  IF mode = "outoforder" THEN 5 * 1000 * 1000 ELSE 2 * 1000 * 1000

\* a longer stage that returns at once, as the out-of-order stage does
LongerReturnsAtOnce(mode) == FALSE

\* the longer stage returns the promise of the timer for a selected frame
LongerHolds(mode) == mode = "longer"

InitDelay ==
  /\ NoStore
  /\ NoRun
  /\ NewPipeline
  /\ NoFrames
  /\ NoNames
  /\ runs = 1
  /\ reports = 0
  /\ NoDelay
  /\ NoCollect
  /\ NoInput
  /\ NoRest
  /\ transformer \in DelayModes
  /\ readable = <<>>
  /\ transformCall = <<>>

\* the stream calls the instrumented transform for the next frame, whose
\* timestamp is d after the one of the frame before, at t: the timer of the
\* stage is started and the transform of the stage is called.  A selected
\* frame is given to setTimeout; any other frame is enqueued, at t2.
DelayTransform(d, t, t2) ==
  /\ ~closed
  /\ transformCall = <<>>
  /\ Len(written) < MaxDelayFrames
  /\ Reads(t)
  /\ LET timestamp == (IF written = <<>> THEN 0 ELSE written[Len(written)].timestamp) + d
         frame == [timestamp |-> timestamp]
         elapsed == timestamp - previousTimestamp
         begun == StartTimer(stats["transformWorker"], timestamp, transformer, t)
     IN /\ written' = Append(written, frame)
        /\ IF elapsed > Threshold(transformer)
           THEN /\ t2 = t
                /\ previousTimestamp' = timestamp
                /\ console' = console + 1
                /\ timers' = Append(timers, frame)
                /\ stats' = [stats EXCEPT !["transformWorker"] = begun]
                /\ transformCall' =
                     <<[chunk |-> frame, enqueued |-> 0,
                        state |-> IF LongerHolds(transformer) THEN "running"
                                                              ELSE "fulfilled"]>>
                /\ UNCHANGED readable
           ELSE /\ t2 \in {t, t + 1} /\ t2 <= MaxTime
                /\ stats' = [stats EXCEPT !["transformWorker"] =
                              WithTimer(begun, timestamp, transformer,
                                ControllerEnqueue(Timer(begun, timestamp, transformer), t2))]
                /\ readable' = Append(readable, frame)
                /\ transformCall' =
                     <<[chunk |-> frame, enqueued |-> 1, state |-> "fulfilled"]>>
                /\ UNCHANGED <<previousTimestamp, console, timers>>
  /\ now' = t2
  /\ UNCHANGED <<nameVars, sessionVars, restVars, closed, collectVars, inputVars, frameVars,
                 transformer, workerVars, dbVars, callerVars, running, done,
                 missedCounter, inbox, statsMsg, reportedStats>>

\* the instrumented transform resumes after its await, at t: it sets the end
\* of the timer unless enqueue has set it
DelayCompletes(t) ==
  /\ transformCall # <<>>
  /\ transformCall[1].state = "fulfilled"
  /\ Reads(t)
  /\ LET id == transformCall[1].chunk.timestamp
     IN stats' = [stats EXCEPT !["transformWorker"] =
                   WithTimer(@, id, transformer, CompleteTimer(Timer(@, id, transformer), t))]
  /\ transformCall' = <<>>
  /\ now' = t
  /\ UNCHANGED <<otherVars, frameVars, transformer, readable, workerVars, dbVars,
                 callerVars, console, running, done, missedCounter, inbox, statsMsg,
                 reportedStats>>

\* a controller.enqueue that takes no frame
EnqueueNothing(rd, frame, isClosed) == rd

\* controller.enqueue(frame) on the readable side rd of the stage: the frame
\* is added, unless the stream is closed and the call throws
Enqueue(rd, frame, isClosed) ==
  IF isClosed THEN rd ELSE Append(rd, frame)

\* the callback of the oldest timer is called, at t: it resolves the promise
\* (longer stage) and calls controller.enqueue, which sets the end of the
\* timer of the stage, then enqueues the frame, or throws when the stream is
\* closed
DelayTimer(t) ==
  /\ timers # <<>>
  /\ \A call \in Range(transformCall) : call.state = "running"
  /\ Reads(t)
  /\ LET frame == Head(timers)
     IN /\ stats' = [stats EXCEPT !["transformWorker"] =
                      WithTimer(@, frame.timestamp, transformer,
                        ControllerEnqueue(Timer(@, frame.timestamp, transformer), t))]
        /\ readable' = Enqueue(readable, frame, closed)
  /\ timers' = Tail(timers)
  /\ transformCall' =
       IF transformCall # <<>>
       THEN <<[transformCall[1] EXCEPT !.state = "fulfilled",
                                       !.enqueued = IF closed THEN 0 ELSE 1]>>
       ELSE transformCall
  /\ now' = t
  /\ UNCHANGED <<nameVars, sessionVars, restVars, written, previousTimestamp, closed, collectVars,
                 inputVars, frameVars, transformer, workerVars, dbVars, callerVars,
                 console, running, done, missedCounter, inbox, statsMsg, reportedStats>>

\* the input of the pipe ends (inputTrack.stop() on Stop): the close reaches
\* the stage once no transform is in progress, and its readable side closes
DelayClose ==
  /\ ~closed
  /\ transformCall = <<>>
  /\ written # <<>>
  /\ closed' = TRUE
  /\ UNCHANGED <<nameVars, sessionVars, restVars, written, timers, previousTimestamp, collectVars,
                 inputVars, frameVars, stageVars, workerVars, dbVars, callerVars,
                 console, runVars>>

NextDelay ==
  \/ \E d \in {FrameStep, 3 * FrameStep}, t, t2 \in 1..MaxTime : DelayTransform(d, t, t2)
  \/ \E t \in 1..MaxTime : DelayCompletes(t)
  \/ \E t \in 1..MaxTime : DelayTimer(t)
  \/ DelayClose

SpecDelay == InitDelay /\ [][NextDelay]_vars

\* the event loop of the worker runs the continuations and the timers that
\* are due
FairDelay ==
  /\ SpecDelay
  /\ WF_vars(\E t \in 1..MaxTime : DelayCompletes(t))
  /\ WF_vars(\E t \in 1..MaxTime : DelayTimer(t))

-----------------------------------------------------------------------------
(* Claims on the delay stages *)

\* the k-th frame written to the stage was enqueued by it
Enqueued(k) ==
  /\ Len(written) >= k
  /\ \E i \in 1..Len(readable) : readable[i] = written[k]

\* no frame was enqueued twice
AtMostOnce ==
  \A i, j \in 1..Len(readable) : i # j => readable[i] # readable[j]

-----------------------------------------------------------------------------
(* collectStats and resetStats of the main thread (part_009), with a stream
   at work.  #stats refers to an array; collectStats returns that array and
   resetStats makes #stats refer to a new one.  A transform call in progress
   holds the entry of its chunk, which stays in the array it was pushed to. *)

\* the array a transform call in progress pushed the entry of its chunk to:
\* the one #stats refers to, the one collectStats returned (when #stats
\* refers to another by now), or one that nothing refers to any more
EntryArrays == {"stats", "collected", "lost"}

\* the array collectStats returned, once the array #stats refers to is st
Returned(st) ==
  IF collected # <<>> /\ aliased
  THEN <<[collected[1] EXCEPT !.array = st]>>
  ELSE collected

InitCollect ==
  /\ NoStore
  /\ NoRun
  /\ NewPipeline
  /\ NoFrames
  /\ NoNames
  /\ runs = 1
  /\ reports = 0
  /\ NoDelay
  /\ NoCollect
  /\ NoInput
  /\ NoRest
  /\ transformer = "user"
  /\ readable = <<>>
  /\ transformCall = <<>>

\* the stream calls the instrumented transform for the next chunk, at t: the
\* entry of the chunk is pushed to the array #stats refers to and the timer
\* is started
CollectTransform(t) ==
  /\ transformCall = <<>>
  /\ done["input"] < MaxChunks
  /\ Reads(t)
  /\ LET chunk == [timestamp |-> done["input"] + 1]
         begun == StartTimer(stats["main"], ChunkId(chunk), TimerName, t)
     IN /\ stats' = [stats EXCEPT !["main"] = begun]
        /\ collected' = Returned(begun)
        /\ transformCall' = <<[chunk |-> chunk, state |-> "running", array |-> "stats"]>>
  /\ done' = [done EXCEPT !["input"] = @ + 1]
  /\ now' = t
  /\ UNCHANGED <<nameVars, sessionVars, restVars, delayVars, aliased, inputVars, frameVars,
                 transformer, readable, workerVars, dbVars, callerVars, console,
                 running, missedCounter, inbox, statsMsg, reportedStats>>

\* the transform in progress calls controller.enqueue, at t, and returns: the
\* end is set in the timer of the entry the call holds
CollectEnqueue(t) ==
  /\ transformCall # <<>>
  /\ Reads(t)
  /\ LET id == ChunkId(transformCall[1].chunk)
         held == transformCall[1].array
         ended == WithTimer(stats["main"], id, TimerName,
                    ControllerEnqueue(Timer(stats["main"], id, TimerName), t))
     IN /\ stats' = IF held = "stats" THEN [stats EXCEPT !["main"] = ended] ELSE stats
        /\ collected' =
             IF held = "stats" THEN Returned(ended)
             ELSE IF held = "collected"
                  THEN <<[collected[1] EXCEPT !.array =
                           WithTimer(@, id, TimerName,
                             ControllerEnqueue(Timer(@, id, TimerName), t))]>>
                  ELSE collected
        /\ readable' = Append(readable, transformCall[1].chunk)
  /\ transformCall' = <<>>
  /\ now' = t
  /\ UNCHANGED <<nameVars, sessionVars, restVars, delayVars, aliased, inputVars, frameVars,
                 transformer, workerVars, dbVars, callerVars, console, running, done,
                 missedCounter, inbox, statsMsg, reportedStats>>

\* InstrumentedTransformStream.collectStats(): the caller gets the array
\* #stats refers to; the model keeps what the array held at that moment
\* (returned) beside what it holds now (array)
CollectStats ==
  /\ collected = <<>>
  /\ collected' = <<[returned |-> stats["main"], array |-> stats["main"]]>>
  /\ aliased' = TRUE
  /\ UNCHANGED <<nameVars, sessionVars, restVars, delayVars, inputVars, frameVars, stageVars,
                 workerVars, dbVars, callerVars, console, runVars>>

\* InstrumentedTransformStream.resetStats(): #stats refers to a new array
ResetStats ==
  /\ stats' = [stats EXCEPT !["main"] = <<>>]
  /\ aliased' = FALSE
  /\ transformCall' =
       IF transformCall # <<>> /\ transformCall[1].array = "stats"
       THEN <<[transformCall[1] EXCEPT !.array = IF aliased THEN "collected" ELSE "lost"]>>
       ELSE transformCall
  /\ UNCHANGED <<nameVars, sessionVars, restVars, delayVars, collected, inputVars, frameVars,
                 transformer, readable, workerVars, dbVars, callerVars, console,
                 running, now, done, missedCounter, inbox, statsMsg, reportedStats>>

NextCollect ==
  \/ \E t \in 1..MaxTime : CollectTransform(t)
  \/ \E t \in 1..MaxTime : CollectEnqueue(t)
  \/ CollectStats
  \/ ResetStats

SpecCollect == InitCollect /\ [][NextCollect]_vars

\* C29: the array collectStats returned holds what it held when it was
\* returned: the same entries, each with the same content.
C29_CollectedIsSnapshot ==
  collected # <<>> => collected[1].array = collected[1].returned

-----------------------------------------------------------------------------
(* The input worker that generates frames (jitter/worker-getinputstream.js).
   Each 'start' that is not ignored takes a writer on the stream it is given
   and starts a chain of writeVideoFrame calls, each call setting the timer
   of the next; started and writer are shared by the chains.  The clock is in
   milliseconds. *)

\* Number of 'start' messages that start a chain
MaxStarts == 2

\* where a chain of writeVideoFrame calls is: at `await writer.ready`, at
\* `await writer.write(frame)`, waiting for its timer, or over
ChainStates == {"ready", "write", "timer", "over"}

InitInput ==
  /\ NoStore
  /\ NoRun
  /\ NewPipeline
  /\ NoFrames
  /\ NoNames
  /\ runs = 1
  /\ reports = 0
  /\ NoDelay
  /\ NoCollect
  /\ NoInput
  /\ NoRest
  /\ NoStage

\* time passes
InputTick ==
  /\ now < MaxTime
  /\ now' = now + 1
  /\ UNCHANGED <<otherVars, frameVars, stageVars, workerVars, dbVars, callerVars, console,
                 running, stats, done, missedCounter, inbox, statsMsg, reportedStats>>

\* message 'start': ignored when started; else the worker takes a writer on
\* the stream of the message and calls writeVideoFrame, which runs up to
\* `await writer.ready`
InputStart ==
  /\ ~started
  /\ Len(chains) < MaxStarts
  /\ started' = TRUE
  /\ writer' = Len(chains) + 1
  /\ chains' = Append(chains, [startTimestamp |-> now, previousTimestamp |-> 0,
                               timestamp |-> 0, pc |-> "ready"])
  /\ UNCHANGED <<nameVars, sessionVars, restVars, delayVars, collectVars, frameVars, stageVars,
                 workerVars, dbVars, callerVars, console, runVars>>

\* message 'stop': ignored when not started; else started is false and the
\* writer is aborted and forgotten: the promise writer.ready that a chain
\* awaits rejects, and the chain is over; so does the promise of a write,
\* unless the stream has the write in flight (inFlight) and completes it
InputStop(inFlight) ==
  /\ started
  /\ started' = FALSE
  /\ writer' = 0
  /\ chains' = [c \in 1..Len(chains) |->
                 IF \/ chains[c].pc = "ready"
                    \/ chains[c].pc = "write" /\ ~inFlight
                 THEN [chains[c] EXCEPT !.pc = "over"]
                 ELSE chains[c]]
  /\ UNCHANGED <<nameVars, sessionVars, restVars, delayVars, collectVars, frameVars, stageVars,
                 workerVars, dbVars, callerVars, console, runVars>>

\* a loop that goes on whether started or not
ContinuesAlways(isStarted) == TRUE

\* `if (!started) return;` at the head of writeVideoFrame and after its
\* first await: the loop goes on when started is true
Continues(isStarted) == isStarted

\* writer.ready resolves for chain c: unless started is false, the timestamp
\* is read from the clock and, when it is greater than the previous one of
\* the chain, a frame with it is written with the writer; else the chain
\* sets its timer
WriterReady(c) ==
  /\ c \in 1..Len(chains)
  /\ chains[c].pc = "ready"
  /\ LET timestamp == now - chains[c].startTimestamp
     IN IF ~Continues(started)
        THEN /\ chains' = [chains EXCEPT ![c].pc = "over"]
             /\ UNCHANGED written
        ELSE IF timestamp > chains[c].previousTimestamp
        THEN /\ written' = Append(written, [timestamp |-> timestamp * 1000,
                                            writer |-> writer])
             /\ chains' = [chains EXCEPT ![c].pc = "write", ![c].timestamp = timestamp]
        ELSE /\ chains' = [chains EXCEPT ![c].pc = "timer",
                                         ![c].timestamp = timestamp,
                                         ![c].previousTimestamp = timestamp]
             /\ UNCHANGED written
  /\ UNCHANGED <<nameVars, sessionVars, restVars, timers, previousTimestamp, closed, collectVars,
                 started, writer, frameVars, stageVars, workerVars, dbVars, callerVars,
                 console, runVars>>

\* writer.write resolves for chain c: the chain sets its timer
WriteDone(c) ==
  /\ c \in 1..Len(chains)
  /\ chains[c].pc = "write"
  /\ chains' = [chains EXCEPT ![c].pc = "timer",
                              ![c].previousTimestamp = chains[c].timestamp]
  /\ UNCHANGED <<nameVars, sessionVars, restVars, delayVars, collectVars, started, writer, frameVars,
                 stageVars, workerVars, dbVars, callerVars, console, runVars>>

\* the timer of chain c calls writeVideoFrame: it returns when started is
\* false, else it runs up to `await writer.ready`
WriteVideoFrame(c) ==
  /\ c \in 1..Len(chains)
  /\ chains[c].pc = "timer"
  /\ chains' = [chains EXCEPT ![c].pc = IF Continues(started) THEN "ready" ELSE "over"]
  /\ UNCHANGED <<nameVars, sessionVars, restVars, delayVars, collectVars, started, writer, frameVars,
                 stageVars, workerVars, dbVars, callerVars, console, runVars>>

NextInput ==
  \/ InputTick
  \/ InputStart
  \/ \E inFlight \in BOOLEAN : InputStop(inFlight)
  \/ \E c \in 1..MaxStarts : WriterReady(c)
  \/ \E c \in 1..MaxStarts : WriteDone(c)
  \/ \E c \in 1..MaxStarts : WriteVideoFrame(c)

SpecInput == InitInput /\ [][NextInput]_vars

\* C30: the frames written with the writer of one run have timestamps that
\* increase strictly in the order of the writes.
C30_TimestampsIncrease ==
  \A i, j \in 1..Len(written) :
    (i < j /\ written[i].writer = written[j].writer)
      => written[i].timestamp < written[j].timestamp

\* C32: while started is false, that is from a 'stop' the worker handled to
\* the next 'start' it handles, no frame is written.
C32_NoWriteWhileStopped ==
  [][~started => written' = written]_vars

\* a 'stop' was handled while a write was pending, after another frame
C32_Witness ==
  /\ ~started
  /\ Len(written) >= 2
  /\ \E c \in 1..Len(chains) : chains[c].pc = "write"

\* the chains that are running (at an await) or scheduled (timer pending)
LiveChains == {c \in 1..Len(chains) : chains[c].pc # "over"}

\* C35: at most one chain of writeVideoFrame calls is scheduled or running.
C35_OneLoop ==
  Cardinality(LiveChains) <= 1

-----------------------------------------------------------------------------
(* The instrumented streams a run builds, by configuration: 'input' and
   'final' on the main thread (part_000), 'overlay' in the overlay worker
   when it is started (worker-overlay.js), and the stages of the transform
   worker (worker-transform.js), each built with a name. *)

\* config.memoryMode || 'no', config.overlayMode
MemoryModes == {"no", "cpu", "gpu"}
OverlayModes == {"none", "timestamp"}

\* the configurations a run may start with
Configs ==
  [memoryMode : MemoryModes, overlayMode : OverlayModes, green : BOOLEAN,
   grey : BOOLEAN, outoforder : BOOLEAN, longer : BOOLEAN, encode : BOOLEAN]

\* memory.toUpperCase()
ToUpperCase(memory) ==
  CASE memory = "cpu" -> "CPU"
    [] memory = "gpu" -> "GPU"
    [] memory = "no" -> "NO"

\* a name for the copy stages that leaves the next step out
CopyNameOfMemory(memory, nextstep) ==
  "to" \o ToUpperCase(memory)

\* copyToMemory: name of the stage, `to${memory.toUpperCase()}-${nextstep}`
CopyName(memory, nextstep) ==
  "to" \o ToUpperCase(memory) \o "-" \o nextstep

\* the stream of that name when the condition holds
Built(condition, name) == IF condition THEN <<name>> ELSE <<>>

\* the names of the streams the 'start' handler of the transform worker
\* builds, in the order in which it builds them
TransformWorkerNames(cfg) ==
  LET memoryMode == cfg.memoryMode
  IN Built(memoryMode = "cpu", CopyName(memoryMode, "rgbx"))
     \o <<"toRGBX">>
     \o Built(memoryMode = "cpu" /\ (cfg.green \/ cfg.grey), CopyName(memoryMode, "transform"))
     \o Built(cfg.green, "background")
     \o Built(cfg.grey, "grey")
     \o Built(cfg.outoforder, "outoforder")
     \o Built(cfg.longer, "longer")
     \o (IF cfg.encode
         THEN <<"encode", "decode">>
              \o Built(memoryMode # "no", CopyName(memoryMode, "encode"))
         ELSE <<>>)
     \o Built(memoryMode # "no" /\ cfg.overlayMode # "none", CopyName(memoryMode, "overlay"))

\* the names of the streams context c builds for a run
NamesOf(cfg, c) ==
  CASE c = "main" -> <<"input", "final">>
    [] c = "overlayWorker" -> Built(cfg.overlayMode = "timestamp", "overlay")
    [] c = "transformWorker" -> TransformWorkerNames(cfg)

InitConfig ==
  /\ NoStore
  /\ NoRun
  /\ NewPipeline
  /\ NoFrames
  /\ NoNames
  /\ runs = 1
  /\ reports = 0
  /\ NoDelay
  /\ NoCollect
  /\ started = FALSE
  /\ writer = 0
  /\ chains = <<>>
  /\ config \in Configs
  /\ rvfcHandle = 0
  /\ registered = {}
  /\ prevPresentedFrames = 0
  /\ lastHandle = 0
  /\ added = <<>>
  /\ thrown = FALSE
  /\ NoStage

\* context c builds its next stream: new InstrumentedTransformStream with a
\* transformer that has a name, which is the name of its timer
BuildStage(c) ==
  /\ Len(stageNames[c]) < Len(NamesOf(config, c))
  /\ stageNames' = [stageNames EXCEPT ![c] =
       Append(@, [timerName |-> NamesOf(config, c)[Len(@) + 1], named |-> TRUE])]
  /\ UNCHANGED <<timerLastId, sessionVars, laterVars, restVars, frameVars, stageVars,
                 workerVars, dbVars, callerVars, console, runVars>>

NextConfig == \E c \in Contexts : BuildStage(c)

SpecConfig == InitConfig /\ [][NextConfig]_vars

\* the streams built so far: context and position
AllStreams ==
  UNION {{<<c, i>> : i \in 1..Len(stageNames[c])} : c \in Contexts}

\* C33: two streams built for the run, in the same context or not, have
\* different names.
C33_StageNamesDistinct ==
  \A x \in AllStreams : \A y \in AllStreams \ {x} :
    stageNames[x[1]][x[2]].timerName # stageNames[y[1]][y[2]].timerName

\* every stream of a run with copies to CPU memory, every transform, the
\* codec and the overlay is built
C33_Witness ==
  /\ config.memoryMode = "cpu"
  /\ Len(stageNames["transformWorker"]) = 11
  /\ Len(stageNames["overlayWorker"]) = 1
  /\ Len(stageNames["main"]) = 2

-----------------------------------------------------------------------------
(* The observation of the display in part_000: startMedia registers
   processFrame as video frame callback, and each call of processFrame is to
   register the next one.  The browser calls a registered callback once, with
   the count of the frames presented so far. *)

\* the largest count of presented frames
MaxPresented == 3

\* the `missed` entries processFrame adds for the frames it did not see
RECURSIVE AddMissed(_, _, _, _)
AddMissed(ts, counter, missed, expectedDisplayTime) ==
  IF missed = 0 THEN ts
  ELSE AddMissed(AddEntry(ts, [id |-> MissedId(counter),
                               display |-> [start |-> expectedDisplayTime]]),
                 counter + 1, missed - 1, expectedDisplayTime)

\* the state right after Start: startMedia has registered processFrame and has
\* not kept the handle
InitDisplay ==
  /\ NoStore
  /\ running = TRUE
  /\ now = 1
  /\ stats = [c \in Contexts |-> <<>>]
  /\ done = [p \in {"input", "transform", "overlay", "final"} |-> 0]
  /\ missedCounter = 0
  /\ inbox = [w \in Workers |-> <<>>]
  /\ statsMsg = [w \in Workers |-> <<>>]
  /\ reportedStats = <<>>
  /\ NewPipeline
  /\ NoFrames
  /\ NoNames
  /\ runs = 1
  /\ reports = 0
  /\ NoDelay
  /\ NoCollect
  /\ NoInput
  /\ config = <<>>
  /\ rvfcHandle = 0
  /\ registered = {1}
  /\ prevPresentedFrames = 0
  /\ lastHandle = 1
  /\ added = <<>>
  /\ thrown = FALSE
  /\ NoStage

\* processFrame: `presentedFrames && presentedFrames === prevPresentedFrames`,
\* the call returns
SkipsSameFrame(presentedFrames, prev) ==
  presentedFrames # 0 /\ presentedFrames = prev

\* the browser calls processFrame, registered under handle h: the count of
\* presented frames is presentedFrames; `reads` is video.currentTime > 0 with
\* the timestamp overlay, and frameIndex is what the pixels read
DisplayCallback(h, presentedFrames, expectedDisplayTime, reads, frameIndex) ==
  /\ h \in registered
  /\ presentedFrames >= prevPresentedFrames
  /\ IF ~running
     THEN /\ rvfcHandle' = 0
          /\ registered' = registered \ {h}
          /\ UNCHANGED <<times, missedCounter, console, prevPresentedFrames, lastHandle>>
     ELSE LET missed == IF presentedFrames # 0 /\ presentedFrames > prevPresentedFrames + 1
                        THEN presentedFrames - prevPresentedFrames - 1
                        ELSE 0
              withMissed == AddMissed(times, missedCounter, missed, expectedDisplayTime)
              dupl == reads /\ FindIndex(withMissed, frameIndex) # 0
          IN /\ missedCounter' = missedCounter + missed
             /\ IF SkipsSameFrame(presentedFrames, prevPresentedFrames)
                THEN /\ times' = withMissed
                     /\ console' = console + (IF missed > 0 THEN 1 ELSE 0)
                     /\ rvfcHandle' = 0
                     /\ registered' = registered \ {h}
                     /\ UNCHANGED <<prevPresentedFrames, lastHandle>>
                ELSE /\ prevPresentedFrames' = presentedFrames
                     /\ times' = IF reads
                                 THEN AddEntry(withMissed,
                                        [id |-> frameIndex,
                                         display |-> [start |-> expectedDisplayTime]])
                                 ELSE withMissed
                     /\ console' = console + (IF missed > 0 THEN 1 ELSE 0)
                                           + (IF dupl THEN 1 ELSE 0)
                     /\ lastHandle' = lastHandle + 1
                     /\ rvfcHandle' = lastHandle + 1
                     /\ registered' = (registered \ {h}) \cup {lastHandle + 1}
  /\ UNCHANGED <<nameVars, sessionVars, laterVars, config, added, thrown, frameVars,
                 stageVars, workerVars, report, callerVars, running, now, stats, done,
                 inbox, statsMsg, reportedStats>>

NextDisplay ==
  \/ \E h \in registered, presentedFrames \in 1..MaxPresented,
        expectedDisplayTime \in 1..MaxTime, reads \in BOOLEAN,
        frameIndex \in 1..MaxPresented :
       DisplayCallback(h, presentedFrames, expectedDisplayTime, reads, frameIndex)
  \/ StopClick

SpecDisplay == InitDisplay /\ [][NextDisplay]_vars

\* C36: while a run is active, every call of processFrame registers the next
\* video frame callback
C36_CallbackRegistersNext ==
  [][(running /\ running' /\ \E h \in registered : h \notin registered')
       => registered' # {}]_vars

-----------------------------------------------------------------------------
(* A store that is filled and reported on more than once: entries are added
   one by one, computeStats is called at any time and again after further
   entries, and reset empties the store. *)

\* Largest number of entries added between two resets, and of reports
MaxAdded == 3
MaxReports == 2

\* the entries added: display observations of a frame, as processFrame adds
\* them (part_000:430-433), and complete intervals of a stage
ObservedEntries ==
  {[id |-> id, display |-> [start |-> s]] : id \in 1..2, s \in 1..3}
  \cup {[id |-> 1, overlay |-> [start |-> 1, end |-> 2]]}

InitReport ==
  /\ NoStore
  /\ NoRun
  /\ NewPipeline
  /\ NoFrames
  /\ NothingElse
  /\ NoStage

\* timesDB.addEntry(entry)
AddEntryCall(entry) ==
  /\ Len(added) < MaxAdded
  /\ times' = AddEntry(times, entry)
  /\ added' = Append(added, entry)
  /\ UNCHANGED <<nameVars, sessionVars, laterVars, config, displayVars, thrown, frameVars,
                 stageVars, report, callerVars, console, runVars, workerVars>>

\* timesDB.computeStats(), whose value the caller logs: the ends it works out
\* for the open intervals are written into the entries of the store
ComputeStatsCall ==
  /\ reports < MaxReports
  /\ times' = ResolveAll(times)
  /\ report' = ReportOf(ResolveAll(times))
  /\ reports' = reports + 1
  /\ UNCHANGED <<nameVars, runs, laterVars, config, displayVars, added, thrown, frameVars,
                 stageVars, callerVars, console, runVars, workerVars>>

\* timesDB.reset()
ResetCall ==
  /\ times # <<>>
  /\ times' = <<>>
  /\ added' = <<>>
  /\ UNCHANGED <<nameVars, sessionVars, laterVars, config, displayVars, thrown, frameVars,
                 stageVars, report, callerVars, console, runVars, workerVars>>

NextReport ==
  \/ \E entry \in ObservedEntries : AddEntryCall(entry)
  \/ ComputeStatsCall
  \/ ResetCall

SpecReport == InitReport /\ [][NextReport]_vars

\* the statistics of a report: per step, queued and end to end
StatisticsOf(r) == <<r.stats, r.queued, r.end2end>>

\* C37: the statistics computeStats returns are those a single computeStats
\* returns on a fresh store to which the entries added since the last reset
\* were added, whatever calls of computeStats were made in between
C37_ReportOfAddedEntries ==
  [][reports' # reports =>
       StatisticsOf(report') =
         StatisticsOf(ReportOf(ResolveAll(AddEntries(<<>>, added'))))]_vars

-----------------------------------------------------------------------------
(* setEndTime of an instrumented transformer, with two streams built in one
   context: both record into the cache of the context, each under the name of
   its own timer. *)

\* the names of the two streams, and the identifiers of the chunks
EndTimeStages == {"input", "final"}
EndTimeChunks == {1, 2}

InitEndTime ==
  /\ NoStore
  /\ NoRun
  /\ NewPipeline
  /\ NoFrames
  /\ NothingElse
  /\ NoStage

\* the instrumented transform of a stream for a chunk, whose transformer
\* enqueues and returns at once
StageTransform(stage, chunkId, t) ==
  /\ Reads(t)
  /\ now' = t
  /\ stats' = [stats EXCEPT !["main"] = RecordStage(@, chunkId, stage, t, t, t)]
  /\ UNCHANGED <<otherVars, frameVars, stageVars, workerVars, dbVars, callerVars, console,
                 running, done, missedCounter, inbox, statsMsg, reportedStats>>

\* setEndTime(chunkId) of the transformer of a stream at time t: nothing when
\* the cache has no entry for the chunk; stats[timerName].end = ... otherwise,
\* which throws a TypeError when the entry has no stats[timerName]
SetEndTime(stage, chunkId, t) ==
  /\ Reads(t)
  /\ now' = t
  /\ LET st == stats["main"]
         i == StatsFind(st, chunkId)
     IN IF i = 0
        THEN UNCHANGED <<stats, thrown>>
        ELSE IF ~Has(st[i], stage)
        THEN thrown' = TRUE /\ UNCHANGED stats
        ELSE /\ stats' = [stats EXCEPT !["main"] =
                            WithTimer(@, chunkId, stage, SetProp(st[i][stage], "end", t))]
             /\ UNCHANGED thrown
  /\ UNCHANGED <<nameVars, sessionVars, laterVars, config, displayVars, added, frameVars,
                 stageVars, workerVars, dbVars, callerVars, console,
                 running, done, missedCounter, inbox, statsMsg, reportedStats>>

NextEndTime ==
  \/ \E stage \in EndTimeStages, chunkId \in EndTimeChunks, t \in 1..MaxTime :
       StageTransform(stage, chunkId, t)
  \/ \E stage \in EndTimeStages, chunkId \in EndTimeChunks, t \in 1..MaxTime :
       SetEndTime(stage, chunkId, t)
  \/ ResetStats

SpecEndTime == InitEndTime /\ [][NextEndTime]_vars

\* C40: setEndTime never throws, whether or not the cache has an entry for the
\* chunk and whether or not that entry has an interval for the stage
C40_SetEndTimeNeverThrows == ~thrown

====
